---- MODULE Spec2Model ----
\* Verification model of accesslint-bench's web benchmark:
\*   src/src/web-bench.ts            the run script and its concurrency pool
\*   src/src/web-bench/auditor.ts    auditSite, the per-site task (lines 161-500)
\*   src/src/web-bench/reporter.ts   JsonlWriter, the streamed result file
\*
\* Two specifications share the module:
\*   Spec      the pool: workers claiming sites, the coarse phases of each
\*             auditSite call, the completion callback and the JSONL stream;
\*   TaskSpec  one auditSite call in detail, with a clock, the in-page
\*             per-tool timers, the hard deadline and the release deadline.
EXTENDS Integers, Sequences, FiniteSets, TLC

VARIABLES
  \* ---- the run script (web-bench.ts)
  items,        \* sites: the list handed to runWithConcurrency
  concurrency,  \* options.concurrency
  mainPc,       \* position of the top-level script
  nextIndex,    \* runWithConcurrency's shared cursor (0-based)
  workers,      \* the worker() calls started by Promise.all
  wpc,          \* each worker's position
  windex,       \* each worker's claimed position in items (1-based, 0 = none)
  timer,        \* per worker: hard-deadline timer pending
  page,         \* per worker: state of the task's page
  wres,         \* per worker: the SiteResult auditSite is about to return
  invoked,      \* per item position: number of fn(items[index]) calls
  finished,     \* per item position: number of callbacks run to their end
  allResults,   \* allResults
  completed,    \* completed
  claims,       \* history: the claims <<worker, position>>, in the order made
  storeFailed,  \* the write stream emitted 'error' (no listener is attached)
  \* ---- JsonlWriter (reporter.ts)
  buffer,       \* chunks accepted by stream.write, not yet on disk
  file,         \* characters on disk
  written,      \* history: the results passed to write(), in call order
  closeCalls,   \* history: number of calls of writer.close()
  writtenAtClose, \* history: Len(written) when writer.close() was called, -1 before
  summaryOver,  \* the list handed to calculateConcordance at the end, <<>> before
  \* ---- one auditSite call in detail (auditor.ts), used by TaskSpec
  timeout,      \* the per-site timeout, in seconds
  now,          \* the clock, in seconds
  tpc,          \* position inside auditSite
  hung,         \* the operation awaited at tpc never settles
  stepStart,    \* when the operation awaited at tpc was started
  acquiredAt,   \* when context.newPage() resolved, -1 before
  hardAt,       \* deadline of the hard timer, -1 when not pending
  closeAt,      \* deadline of the release timer, -1 when not pending
  pageT,        \* the task's page
  tool,         \* per tool: what the in-page code recorded
  toolFate,     \* per tool: what the tool's own call does
  raceWinner,   \* which promise settled Promise.race first
  lateWork,     \* the abandoned work settled after the race was decided
  result,       \* the SiteResult auditSite returns
  outcomes,     \* number of times auditSite fixed its outcome
  hardFiredAt,  \* when the hard timer fired, -1 if it did not
  resultAt,     \* when the outcome was fixed, -1 before
  \* ---- the start of the run script (web-bench.ts 15-76, sites code), used by SetupSpec
  argvShard,    \* the text after --shard=, Absent when the option is not given
  argvSize,     \* options.sampleSize
  argvSeed,     \* options.seed, NoSeed when --seed is not given
  cruxList,     \* the world: the records of the CrUX list, in file order
  denylist,     \* the world: the domains of the hosts file
  setupPc,      \* position of the top-level script before the pool
  shard,        \* <<shardIndex, shardTotal>>, <<>> when not sharded
  allSites,     \* what downloadAndSample returned, <<>> before
  shardSites,   \* sites after the sharding step, <<>> before
  rngSeed,      \* the seed variable of the last mulberry32 closure, <<>> before
  itemsAfter,   \* the array given to seededSample, as the call left it
  fetches,      \* number of fetch() calls made in this run
  fetchFailed,  \* a fetch of this run failed
  storeOpened,  \* new JsonlWriter(...) has run in this run
  runNo,        \* which run of the script this is
  prevSample,   \* history: what downloadAndSample returned in the run before
  prevPc,       \* history: where the run before ended, "none" in the first run
  results,          \* the SiteResult[] handed to calculateConcordance
  concordances,     \* what the three-tool calculateConcordance returned for it
  concordancesPair, \* what the two-tool calculateConcordance returned for it
  kTable,           \* a 2x2 table <<both, firstOnly, secondOnly, neither>>
  kappa,            \* the kappa computed for kTable
  kpc,              \* "ready" before the computation, then which code computed kappa
  calls,            \* CallSpec: calls of calculateConcordance made so far
  givenResults,     \* history: the list as it was handed to the first call
  firstTables,      \* history: the two tables the first call returned
  permuted          \* history: the list was put in another order after the first call

poolVars == <<items, concurrency, mainPc, nextIndex, workers, wpc, windex, timer,
              page, wres, invoked, finished, allResults, completed, claims,
              storeFailed>>
writerVars == <<buffer, file, written, closeCalls, writtenAtClose, summaryOver>>
taskVars == <<timeout, now, tpc, hung, stepStart, acquiredAt, hardAt, closeAt, pageT, tool,
              toolFate, raceWinner, lateWork, result, outcomes, hardFiredAt, resultAt>>
setupVars == <<argvShard, argvSize, argvSeed, cruxList, denylist, setupPc, shard,
               allSites, shardSites, rngSeed, itemsAfter, fetches, fetchFailed, storeOpened, runNo,
               prevSample, prevPc>>
kappaVars == <<kTable, kappa, kpc>>
callVars == <<calls, givenResults, firstTables, permuted>>
concVars == <<results, concordances, concordancesPair, kappaVars, callVars>>
vars == <<poolVars, writerVars, taskVars, setupVars, concVars>>

\* ------------------------------------------------------------------ bounds
MaxTargets == 3
MaxConcurrency == 2

Min(a, b) == IF a <= b THEN a ELSE b

\* ------------------------------------------------------------------ text
\* Strings are sequences of characters; these four matter to JSON.
LF == "LF"
QUOTE == "QUOTE"
BACKSLASH == "BACKSLASH"

RECURSIVE Flatten(_)
Flatten(chunks) ==
  IF chunks = <<>> THEN <<>> ELSE Head(chunks) \o Flatten(Tail(chunks))

\* The error texts a task can carry (err.message).
HardTimeoutMessage == <<"hard timeout after", "ms">>
AuditTimeoutMessage == <<"audit timeout">>
\* Playwright's timeout error: several lines, with quoted text in its call log.
GotoTimeoutMessage == <<"Timeout exceeded.", LF, "Call log:", QUOTE>>
NetErrorMessage == <<"net::ERR_FAILED">>

NoResult == [status |-> "none"]


\* A serializer that writes every character as it is.
EscapeCharRaw(c) == <<c>>
\* JSON.stringify's escaping of one character of a string.
EscapeChar(c) ==
  IF c = LF THEN <<BACKSLASH, "n">>
  ELSE IF c = QUOTE THEN <<BACKSLASH, QUOTE>>
  ELSE IF c = BACKSLASH THEN <<BACKSLASH, BACKSLASH>>
  ELSE <<c>>

RECURSIVE Escape(_)
Escape(s) == IF s = <<>> THEN <<>> ELSE EscapeChar(Head(s)) \o Escape(Tail(s))

JsonString(s) == <<QUOTE>> \o Escape(s) \o <<QUOTE>>

JsonMember(key, s) == JsonString(<<key>>) \o <<":">> \o JsonString(s)

\* JSON.stringify(result): the members in insertion order; a result built by
\* the try branch has no "error" member.
JsonStringify(r) ==
  <<"{">> \o JsonMember("origin", r.origin) \o <<",">>
          \o JsonMember("status", <<r.status>>)
          \o (IF "error" \in DOMAIN r
                THEN <<",">> \o JsonMember("error", r.error) ELSE <<>>)
          \o <<"}">>

\* JsonlWriter.write: one chunk handed to stream.write.
WriteChunk(r) == JsonStringify(r) \o <<LF>>

\* The lines of a text: the pieces ended by LF, and the unfinished rest.
RECURSIVE SplitLines(_, _, _)
SplitLines(s, cur, acc) ==
  IF s = <<>> THEN [lines |-> acc, rest |-> cur]
  ELSE IF Head(s) = LF THEN SplitLines(Tail(s), <<>>, Append(acc, cur))
  ELSE SplitLines(Tail(s), Append(cur, Head(s)), acc)

Lines(s) == SplitLines(s, <<>>, <<>>)

\* ------------------------------------------------------------------ the pool
Origin(i) == <<"https://site", ToString(i)>>

\* sites: origins in sample order.
ItemLists == { [i \in 1..n |-> Origin(i)] : n \in 0..MaxTargets }

Positions == 1..Len(items)

\* The results auditSite builds (auditor.ts 443-465 and 469-492).
OkResult(origin) == [origin |-> origin, status |-> "ok"]
ErrorResult(origin, msg) == [origin |-> origin, status |-> "error", error |-> msg]

\* A pool that starts one worker per item (the fan-out C2 rules out).
WorkerCountFanOut == Len(items)
\* Math.min(concurrency, items.length): the number of worker() calls.
WorkerCount == Min(concurrency, Len(items))

PoolInit ==
  /\ items \in ItemLists
  /\ concurrency \in 1..MaxConcurrency
  /\ mainPc = "start"
  /\ nextIndex = 0
  /\ workers = {}
  /\ wpc = <<>>
  /\ windex = <<>>
  /\ timer = <<>>
  /\ page = <<>>
  /\ wres = <<>>
  /\ invoked = [i \in Positions |-> 0]
  /\ finished = [i \in Positions |-> 0]
  /\ allResults = <<>>
  /\ completed = 0
  /\ claims = <<>>
  /\ storeFailed = FALSE

WriterInit ==
  /\ buffer = <<>>
  /\ file = <<>>
  /\ written = <<>>
  /\ closeCalls = 0
  /\ writtenAtClose = -1
  /\ summaryOver = <<>>

\* The positions of the script at which the process is alive and its pending
\* promises can still settle.
ProcessAlive == {"pool", "closing", "closed", "summary"}

\* A cursor that is read and not advanced.
CursorStays(n) == n
\* The cursor after a claim: const index = nextIndex++.
CursorAfterClaim(n) == n + 1

\* worker w at the head of its loop, run to its next await: the loop test,
\* then either the claim and the call fn(items[index]), which runs into
\* auditSite up to "await context.newPage()", or the end of the worker.
\* st holds the cursor and the per-worker and per-item bookkeeping.
WorkerLoopStep(w, st) ==
  IF st.cursor < Len(items)
    THEN [cursor |-> CursorAfterClaim(st.cursor),
          windex |-> [st.windex EXCEPT ![w] = st.cursor + 1],
          invoked |-> [st.invoked EXCEPT ![st.cursor + 1] = @ + 1],
          claims |-> Append(st.claims, <<w, st.cursor + 1>>),
          wpc |-> [st.wpc EXCEPT ![w] = "newPage"]]
    ELSE [st EXCEPT !.wpc[w] = "done"]

\* Array.from({ length }, () => worker()): the workers are called one after
\* the other, each running synchronously to its first await.
RECURSIVE RunWorkersToFirstAwait(_, _, _)
RunWorkersToFirstAwait(w, k, st) ==
  IF w > k THEN st ELSE RunWorkersToFirstAwait(w + 1, k, WorkerLoopStep(w, st))

\* runWithConcurrency is called: Promise.all over the worker() calls.
Start ==
  /\ mainPc = "start"
  /\ mainPc' = "pool"
  /\ LET k == WorkerCount
         st == RunWorkersToFirstAwait(1, k,
                 [cursor |-> nextIndex,
                  windex |-> [w \in 1..k |-> 0],
                  invoked |-> invoked,
                  claims |-> claims,
                  wpc |-> [w \in 1..k |-> "loop"]])
     IN /\ workers' = 1..k
        /\ wpc' = st.wpc
        /\ windex' = st.windex
        /\ nextIndex' = st.cursor
        /\ invoked' = st.invoked
        /\ claims' = st.claims
        /\ timer' = [w \in 1..k |-> FALSE]
        /\ page' = [w \in 1..k |-> "none"]
        /\ wres' = [w \in 1..k |-> NoResult]
  /\ UNCHANGED <<items, concurrency, finished, allResults, completed, storeFailed,
                 writerVars, taskVars, setupVars, concVars>>

\* auditSite: context.newPage() resolves; the hard timer is set and the race
\* between the deadline and the work starts.
NewPageResolve(w) ==
  /\ mainPc \in ProcessAlive
  /\ wpc[w] = "newPage"
  /\ wpc' = [wpc EXCEPT ![w] = "race"]
  /\ page' = [page EXCEPT ![w] = "open"]
  /\ timer' = [timer EXCEPT ![w] = TRUE]
  /\ UNCHANGED <<items, concurrency, mainPc, nextIndex, workers, windex, wres, invoked,
                 finished, allResults, completed, claims, storeFailed,
                 writerVars, taskVars, setupVars, concVars>>

\* auditSite: context.newPage() rejects. The await is outside the try, so
\* auditSite rejects, the callback rejects, worker() rejects at "await fn",
\* Promise.all rejects and the top-level await of the script throws.
NewPageReject(w) ==
  /\ mainPc \in ProcessAlive
  /\ wpc[w] = "newPage"
  /\ wpc' = [wpc EXCEPT ![w] = "rejected"]
  /\ mainPc' = "crashed"
  /\ UNCHANGED <<items, concurrency, nextIndex, workers, windex, timer, page, wres,
                 invoked, finished, allResults, completed, claims, storeFailed,
                 writerVars, taskVars, setupVars, concVars>>

\* auditSite: the work wins the race with a result; finally clears the timer
\* and asks for the page to be closed.
WorkResolve(w) ==
  /\ mainPc \in ProcessAlive
  /\ wpc[w] = "race"
  /\ wres' = [wres EXCEPT ![w] = OkResult(items[windex[w]])]
  /\ timer' = [timer EXCEPT ![w] = FALSE]
  /\ page' = [page EXCEPT ![w] = "closing"]
  /\ wpc' = [wpc EXCEPT ![w] = "finally"]
  /\ UNCHANGED <<items, concurrency, mainPc, nextIndex, workers, windex, invoked,
                 finished, allResults, completed, claims, storeFailed,
                 writerVars, taskVars, setupVars, concVars>>

\* auditSite: a step of the work rejects (navigation, script injection,
\* page.evaluate); catch builds the error result.
WorkReject(w) ==
  /\ mainPc \in ProcessAlive
  /\ wpc[w] = "race"
  /\ wres' = [wres EXCEPT ![w] = ErrorResult(items[windex[w]], GotoTimeoutMessage)]
  /\ timer' = [timer EXCEPT ![w] = FALSE]
  /\ page' = [page EXCEPT ![w] = "closing"]
  /\ wpc' = [wpc EXCEPT ![w] = "finally"]
  /\ UNCHANGED <<items, concurrency, mainPc, nextIndex, workers, windex, invoked,
                 finished, allResults, completed, claims, storeFailed,
                 writerVars, taskVars, setupVars, concVars>>

\* auditSite: the hard timer fires first: the page is force-closed and the
\* deadline promise rejects the race.
HardDeadline(w) ==
  /\ mainPc \in ProcessAlive
  /\ wpc[w] = "race"
  /\ timer[w]
  /\ wres' = [wres EXCEPT ![w] = ErrorResult(items[windex[w]], HardTimeoutMessage)]
  /\ timer' = [timer EXCEPT ![w] = FALSE]
  /\ page' = [page EXCEPT ![w] = "forceClosed"]
  /\ wpc' = [wpc EXCEPT ![w] = "finally"]
  /\ UNCHANGED <<items, concurrency, mainPc, nextIndex, workers, windex, invoked,
                 finished, allResults, completed, claims, storeFailed,
                 writerVars, taskVars, setupVars, concVars>>

\* A writer that keeps the record back instead of handing it to the stream.
BufferAfterWriteDeferred(buf, r) == buf
\* The chunks of the stream after write(result).
BufferAfterWrite(buf, r) == Append(buf, WriteChunk(r))

\* auditSite's finally ends (the close or its 5 s timer), auditSite returns and
\* the callback runs to its end: writer.write, allResults.push, completed++.
\* The worker's "await fn" then resumes in the same turn of the event loop
\* and runs its loop to the next await.
Callback(w) ==
  /\ mainPc \in ProcessAlive
  /\ wpc[w] = "finally"
  /\ buffer' = BufferAfterWrite(buffer, wres[w])
  /\ written' = Append(written, wres[w])
  /\ allResults' = Append(allResults, wres[w])
  /\ completed' = completed + 1
  /\ finished' = [finished EXCEPT ![windex[w]] = @ + 1]
  /\ page' = [page EXCEPT ![w] = "none"]
  /\ wres' = [wres EXCEPT ![w] = NoResult]
  /\ LET st == WorkerLoopStep(w, [cursor |-> nextIndex, windex |-> windex,
                                  invoked |-> invoked, claims |-> claims,
                                  wpc |-> wpc])
     IN /\ wpc' = st.wpc
        /\ windex' = st.windex
        /\ nextIndex' = st.cursor
        /\ invoked' = st.invoked
        /\ claims' = st.claims
  /\ UNCHANGED <<items, concurrency, mainPc, workers, timer, storeFailed, file,
                 closeCalls, writtenAtClose, summaryOver, taskVars, setupVars, concVars>>

\* await Promise.all(workers): every worker's promise has resolved.
PromiseAllResolved == \A w \in workers : wpc[w] = "done"

\* Promise.all resolves and the script goes on to writer.close(), which calls
\* stream.end.
PoolResolve ==
  /\ mainPc = "pool"
  /\ PromiseAllResolved
  /\ mainPc' = "closing"
  /\ closeCalls' = closeCalls + 1
  /\ writtenAtClose' = Len(written)
  /\ UNCHANGED <<items, concurrency, nextIndex, workers, wpc, windex, timer, page, wres,
                 invoked, finished, allResults, completed, claims, storeFailed,
                 buffer, file, written, summaryOver, taskVars, setupVars, concVars>>

\* The write stream puts its oldest chunk on disk.
Flush ==
  /\ mainPc \in {"pool", "closing"}
  /\ ~storeFailed
  /\ buffer # <<>>
  /\ file' = file \o Head(buffer)
  /\ buffer' = Tail(buffer)
  /\ UNCHANGED <<poolVars, written, closeCalls, writtenAtClose, summaryOver, taskVars,
                 setupVars, concVars>>

\* writer.close(): stream.end's callback runs once everything is on disk (or
\* the stream was destroyed by a failure).
CloseDone ==
  /\ mainPc = "closing"
  /\ buffer = <<>> \/ storeFailed
  /\ mainPc' = "closed"
  /\ UNCHANGED <<items, concurrency, nextIndex, workers, wpc, windex, timer, page, wres,
                 invoked, finished, allResults, completed, claims, storeFailed,
                 writerVars, taskVars, setupVars, concVars>>

\* web-bench.ts 118-121: browser.close() resolves and calculateConcordance is
\* called with allResults.
Summary ==
  /\ mainPc = "closed"
  /\ mainPc' = "summary"
  /\ summaryOver' = allResults
  /\ UNCHANGED <<items, concurrency, nextIndex, workers, wpc, windex, timer, page, wres,
                 invoked, finished, allResults, completed, claims, storeFailed,
                 buffer, file, written, closeCalls, writtenAtClose, taskVars, setupVars,
                 concVars>>

\* A stream that has an 'error' listener: the failure is swallowed.
StreamErrorAfterHandled(pc) == pc
\* The script after the stream's 'error' event: createWriteStream's stream has
\* no 'error' listener, so the emit throws, nothing catches it and the process
\* dies.
StreamErrorAfter(pc) == "crashed"

\* A pending write of the stream fails (disk full, I/O error): its chunk and
\* the chunks queued behind it never reach the disk, the stream is destroyed
\* and emits 'error'.
StreamError ==
  /\ mainPc \in {"pool", "closing"}
  /\ buffer # <<>>
  /\ ~storeFailed
  /\ storeFailed' = TRUE
  /\ mainPc' = StreamErrorAfter(mainPc)
  /\ UNCHANGED <<items, concurrency, nextIndex, workers, wpc, windex, timer, page, wres,
                 invoked, finished, allResults, completed, claims, writerVars,
                 taskVars, setupVars, concVars>>

PoolNext ==
  \/ Start
  \/ \E w \in workers : NewPageResolve(w)
  \/ \E w \in workers : NewPageReject(w)
  \/ \E w \in workers : WorkResolve(w)
  \/ \E w \in workers : WorkReject(w)
  \/ \E w \in workers : HardDeadline(w)
  \/ \E w \in workers : Callback(w)
  \/ PoolResolve
  \/ Flush
  \/ StreamError
  \/ CloseDone
  \/ Summary

\* ------------------------------------------------------------------ one task
\* Time is counted in seconds. The per-site timeout is a whole number of
\* seconds (--timeout=5000, 10000, ...), so that every timer of the task falls
\* on a whole second.
MaxTimeoutSteps == 1
MaxAcquireDelay == 1
MaxToolSeconds == 1
TimeoutChoices == { 5 * k : k \in 1..MaxTimeoutSteps }

\* setTimeout(r, 5000) in finally, and setTimeout(resolve, 3000) in the
\* DOM-stabilisation script, in seconds.
ReleaseDeadline == 5
StabilizeCap == 3

\* An in-page timer set to the whole per-site timeout.
AuditTimeoutMsFull(ms) == ms
\* Math.round(timeout * 0.8), on milliseconds.
AuditTimeoutMs(ms) == (8 * ms + 5) \div 10

\* The in-page TIMEOUT of a task, in seconds.
SoftTimeout(t) == AuditTimeoutMs(t * 1000) \div 1000

\* A hard timer set to three times the per-site timeout.
HardTimeoutTriple(t) == t * 3
\* const hardTimeout = timeout * 2.
HardTimeout(t) == t * 2

ClockEnd == MaxAcquireDelay + HardTimeout(5 * MaxTimeoutSteps) + ReleaseDeadline + 1

Tools == {"axe", "al", "ibm"}
Criteria == {"1.1.1", "4.1.2"}
FoundChoices == { {}, Criteria }

\* var xTimeMs = 0; var xViolations = []; var xStatus = "ok"; var xError = null.
ToolInitial == [status |-> "ok", timeMs |-> 0, error |-> <<"null">>, found |-> {}]
\* The try branch of a tool ran to its end.
ToolSucceeded(ms, found) ==
  [status |-> "ok", timeMs |-> ms, error |-> <<"null">>, found |-> found]
\* The catch branch of a tool.
ToolFailed(msg) == [status |-> "error", timeMs |-> -1, error |-> msg, found |-> {}]
\* The tool fields of the result built by auditSite's catch.
ToolOfErrorResult == [status |-> "error", timeMs |-> 0, error |-> <<"null">>, found |-> {}]

ToolThrowMessage == <<"tool threw">>

OkSiteResult(raw) == [status |-> "ok", tools |-> raw]
ErrorSiteResult(msg) ==
  [status |-> "error", error |-> msg, tools |-> [t \in Tools |-> ToolOfErrorResult]]

InjectPhases == {"inject1", "inject2", "inject3"}
InPagePhases == {"stabilize", "axe", "al", "ibm"}
WorkPhases == {"goto", "stabilize", "axe", "al", "ibm", "evalReturn"} \cup InjectPhases

TaskInit ==
  /\ timeout \in TimeoutChoices
  /\ now = 0
  /\ tpc = "newPage"
  /\ hung = "no"
  /\ stepStart = 0
  /\ acquiredAt = -1
  /\ hardAt = -1
  /\ closeAt = -1
  /\ pageT = "none"
  /\ tool = [t \in Tools |-> ToolInitial]
  /\ toolFate = [t \in Tools |-> "pending"]
  /\ raceWinner = "none"
  /\ lateWork = FALSE
  /\ result = NoResult
  /\ outcomes = 0
  /\ hardFiredAt = -1
  /\ resultAt = -1

\* The task variables while the pool specification runs.
TaskIdle ==
  /\ timeout = 5
  /\ now = 0
  /\ tpc = "idle"
  /\ hung = "no"
  /\ stepStart = 0
  /\ acquiredAt = -1
  /\ hardAt = -1
  /\ closeAt = -1
  /\ pageT = "none"
  /\ tool = [t \in Tools |-> ToolInitial]
  /\ toolFate = [t \in Tools |-> "pending"]
  /\ raceWinner = "none"
  /\ lateWork = FALSE
  /\ result = NoResult
  /\ outcomes = 0
  /\ hardFiredAt = -1
  /\ resultAt = -1

\* The pool variables while another specification runs.
PoolIdle ==
  /\ items = <<>>
  /\ concurrency = 1
  /\ mainPc = "task"
  /\ nextIndex = 0
  /\ workers = {}
  /\ wpc = <<>>
  /\ windex = <<>>
  /\ timer = <<>>
  /\ page = <<>>
  /\ wres = <<>>
  /\ invoked = <<>>
  /\ finished = <<>>
  /\ allResults = <<>>
  /\ completed = 0
  /\ claims = <<>>
  /\ storeFailed = FALSE

\* The timers that are pending, by their deadlines.
Deadlines ==
  (IF hardAt >= 0 THEN {hardAt} ELSE {})
  \cup (IF closeAt >= 0 /\ tpc = "finally" THEN {closeAt} ELSE {})
  \cup (IF tpc = "goto" THEN {stepStart + timeout} ELSE {})
  \cup (IF tpc = "stabilize" /\ hung # "blocked" THEN {stepStart + StabilizeCap} ELSE {})
  \cup (IF tpc \in {"axe", "ibm"} /\ hung # "blocked"
          THEN {stepStart + SoftTimeout(timeout)} ELSE {})

\* One second passes; a timer fires at its deadline, not later.
Tick ==
  /\ tpc \notin {"idle", "returned", "rejected"}
  /\ now < ClockEnd
  /\ \A d \in Deadlines : now < d
  /\ now' = now + 1
  /\ UNCHANGED <<concVars, setupVars, poolVars, writerVars, timeout, acquiredAt, tpc, hung, stepStart, hardAt, closeAt,
                 pageT, tool, toolFate, raceWinner, lateWork, result, outcomes,
                 hardFiredAt, resultAt>>

\* The operation awaited at tpc will never settle by itself ("pending"), or
\* the page's script thread is stuck in it ("blocked": in-page timers cannot
\* run either).
Hang(kind) ==
  /\ hung = "no"
  /\ \/ kind = "pending" /\ tpc \in {"newPage", "goto", "axe", "ibm", "evalReturn", "finally"} \cup InjectPhases
     \/ kind = "blocked" /\ tpc \in InPagePhases
  /\ hung' = kind
  /\ UNCHANGED <<concVars, setupVars, poolVars, writerVars, timeout, acquiredAt, now, tpc, stepStart, hardAt, closeAt,
                 pageT, tool, toolFate, raceWinner, lateWork, result, outcomes,
                 hardFiredAt, resultAt>>

\* Moving on to the next awaited operation of the work.
Advance(next) ==
  /\ tpc' = next
  /\ stepStart' = now
  /\ hung' = "no"

\* context.newPage() resolves: page.setDefaultTimeout, then the hard timer is
\* set and the race starts with page.goto.
TNewPageResolve ==
  /\ tpc = "newPage"
  /\ hung = "no"
  /\ now <= MaxAcquireDelay
  /\ pageT' = "open"
  /\ acquiredAt' = now
  /\ hardAt' = now + HardTimeout(timeout)
  /\ Advance("goto")
  /\ UNCHANGED <<concVars, setupVars, poolVars, writerVars, timeout, now, closeAt, tool, toolFate,
                 raceWinner, lateWork, result, outcomes, hardFiredAt, resultAt>>

\* context.newPage() rejects: the await is outside try, auditSite rejects.
TNewPageReject ==
  /\ tpc = "newPage"
  /\ hung = "no"
  /\ tpc' = "rejected"
  /\ UNCHANGED <<concVars, setupVars, poolVars, writerVars, timeout, acquiredAt, now, hung, stepStart, hardAt, closeAt,
                 pageT, tool, toolFate, raceWinner, lateWork, result, outcomes,
                 hardFiredAt, resultAt>>

\* clearTimeout(timer) in finally.
TimerAfterFinally(h) == -1

\* The race is settled: the try returns the result or catch builds one, and
\* finally clears the hard timer and starts the release race.
Settle(winner, r, h, pg) ==
  /\ raceWinner' = winner
  /\ result' = r
  /\ outcomes' = outcomes + 1
  /\ resultAt' = now
  /\ hardAt' = TimerAfterFinally(h)
  /\ closeAt' = now + ReleaseDeadline
  /\ pageT' = pg
  /\ Advance("finally")


\* page.goto resolves.
GotoResolve ==
  /\ tpc = "goto"
  /\ hung = "no"
  /\ Advance("stabilize")
  /\ UNCHANGED <<concVars, setupVars, poolVars, writerVars, timeout, acquiredAt, now, hardAt, closeAt, pageT, tool,
                 toolFate, raceWinner, lateWork, result, outcomes, hardFiredAt, resultAt>>

\* page.goto's own timeout (the per-site timeout) ends the navigation.
GotoTimeout ==
  /\ tpc = "goto"
  /\ now = stepStart + timeout
  /\ Settle("work", ErrorSiteResult(GotoTimeoutMessage), hardAt, "closing")
  /\ UNCHANGED <<concVars, setupVars, poolVars, writerVars, timeout, acquiredAt, now, tool, toolFate, lateWork,
                 hardFiredAt>>

\* The DOM-stabilisation script sees three stable frames.
StabilizeStable ==
  /\ tpc = "stabilize"
  /\ hung = "no"
  /\ Advance("inject1")
  /\ UNCHANGED <<concVars, setupVars, poolVars, writerVars, timeout, acquiredAt, now, hardAt, closeAt, pageT, tool,
                 toolFate, raceWinner, lateWork, result, outcomes, hardFiredAt, resultAt>>

\* The DOM-stabilisation script's maxWait timer resolves it.
StabilizeMaxWait ==
  /\ tpc = "stabilize"
  /\ hung # "blocked"
  /\ now = stepStart + StabilizeCap
  /\ Advance("inject1")
  /\ UNCHANGED <<concVars, setupVars, poolVars, writerVars, timeout, acquiredAt, now, hardAt, closeAt, pageT, tool,
                 toolFate, raceWinner, lateWork, result, outcomes, hardFiredAt, resultAt>>

NextInject(p) == IF p = "inject1" THEN "inject2" ELSE IF p = "inject2" THEN "inject3" ELSE "axe"

\* One of the three page.addScriptTag calls resolves; after the third,
\* page.evaluate(buildAuditCode(timeout)) starts with the axe-core block.
InjectResolve ==
  /\ tpc \in InjectPhases
  /\ hung = "no"
  /\ Advance(NextInject(tpc))
  /\ UNCHANGED <<concVars, setupVars, poolVars, writerVars, timeout, acquiredAt, now, hardAt, closeAt, pageT, tool,
                 toolFate, raceWinner, lateWork, result, outcomes, hardFiredAt, resultAt>>

\* An awaited Playwright call of the work rejects (navigation error, CSP
\* block, page crash, script error outside the tool blocks): catch.
TWorkReject ==
  /\ tpc \in WorkPhases
  /\ hung = "no"
  /\ Settle("work", ErrorSiteResult(NetErrorMessage), hardAt, "closing")
  /\ UNCHANGED <<concVars, setupVars, poolVars, writerVars, timeout, acquiredAt, now, tool, toolFate, lateWork,
                 hardFiredAt>>

\* A tool's try block ran to its end (within MaxToolSeconds in this model; a
\* slower call is one that hangs).
ToolSuccess(t, found, next) ==
  /\ now - stepStart <= MaxToolSeconds
  /\ tool' = [tool EXCEPT ![t] = ToolSucceeded(now - stepStart, found)]
  /\ toolFate' = [toolFate EXCEPT ![t] = "ok"]
  /\ Advance(next)
  /\ UNCHANGED <<concVars, setupVars, poolVars, writerVars, timeout, acquiredAt, now, hardAt, closeAt, pageT,
                 raceWinner, lateWork, result, outcomes, hardFiredAt, resultAt>>

\* A tool block without its own catch: the failure rejects page.evaluate and
\* reaches auditSite's catch.
ToolFailureEscapes(t, msg, fate, next) ==
  /\ toolFate' = [toolFate EXCEPT ![t] = fate]
  /\ Settle("work", ErrorSiteResult(msg), hardAt, "closing")
  /\ UNCHANGED <<concVars, setupVars, poolVars, writerVars, timeout, acquiredAt, now, tool, lateWork, hardFiredAt>>
\* A tool's call threw, rejected or lost against its timer: the tool's own
\* catch block records it and the in-page code goes on with the next tool.
ToolFailure(t, msg, fate, next) ==
  /\ tool' = [tool EXCEPT ![t] = ToolFailed(msg)]
  /\ toolFate' = [toolFate EXCEPT ![t] = fate]
  /\ Advance(next)
  /\ UNCHANGED <<concVars, setupVars, poolVars, writerVars, timeout, acquiredAt, now, hardAt, closeAt, pageT,
                 raceWinner, lateWork, result, outcomes, hardFiredAt, resultAt>>

\* axe-core: window.axe.run raced against the in-page timer.
AxeResolve(found) == tpc = "axe" /\ hung = "no" /\ ToolSuccess("axe", found, "al")
AxeThrow == tpc = "axe" /\ hung = "no" /\ ToolFailure("axe", ToolThrowMessage, "throw", "al")
AxeTimeout ==
  /\ tpc = "axe"
  /\ hung # "blocked"
  /\ now = stepStart + SoftTimeout(timeout)
  /\ ToolFailure("axe", AuditTimeoutMessage, "timeout", "al")

\* @accesslint/core: window.AccessLintCore.runAudit, a synchronous call.
AlReturn(found) == tpc = "al" /\ hung = "no" /\ ToolSuccess("al", found, "ibm")
AlThrow == tpc = "al" /\ hung = "no" /\ ToolFailure("al", ToolThrowMessage, "throw", "ibm")

\* IBM Equal Access: checker.check raced against the in-page timer.
IbmResolve(found) == tpc = "ibm" /\ hung = "no" /\ ToolSuccess("ibm", found, "evalReturn")
IbmThrow ==
  tpc = "ibm" /\ hung = "no" /\ ToolFailure("ibm", ToolThrowMessage, "throw", "evalReturn")
IbmTimeout ==
  /\ tpc = "ibm"
  /\ hung # "blocked"
  /\ now = stepStart + SoftTimeout(timeout)
  /\ ToolFailure("ibm", AuditTimeoutMessage, "timeout", "evalReturn")

\* page.evaluate resolves with the raw result; the result is built and
\* returned from the try.
EvaluateResolve ==
  /\ tpc = "evalReturn"
  /\ hung = "no"
  /\ Settle("work", OkSiteResult(tool), hardAt, "closing")
  /\ UNCHANGED <<concVars, setupVars, poolVars, writerVars, timeout, acquiredAt, now, tool, toolFate, lateWork,
                 hardFiredAt>>

\* The message of the error the hard timer rejects with.
HardMessage == HardTimeoutMessage

\* The hard timer fires: page.close({ runBeforeUnload: false }) and
\* reject(new Error("hard timeout after ...")). The rejection decides the race
\* only if the race is still undecided.
HardTimerFires ==
  /\ hardAt >= 0
  /\ now = hardAt
  /\ hardFiredAt' = now
  /\ IF raceWinner = "none" /\ tpc \in WorkPhases
       THEN /\ Settle("deadline", ErrorSiteResult(HardMessage), -1, "forceClosed")
            /\ UNCHANGED <<tool, toolFate, lateWork>>
       ELSE /\ hardAt' = -1
            /\ pageT' = "forceClosed"
            /\ UNCHANGED <<tpc, hung, stepStart, closeAt, tool, toolFate, raceWinner,
                           lateWork, result, outcomes, resultAt>>
  /\ UNCHANGED <<concVars, setupVars, poolVars, writerVars, timeout, acquiredAt, now>>

\* After the deadline won, the abandoned work settles (its awaited call
\* rejects on the closed page); Promise.race ignores it.
AbandonedWorkSettles ==
  /\ raceWinner = "deadline"
  /\ ~lateWork
  /\ lateWork' = TRUE
  /\ UNCHANGED <<concVars, setupVars, poolVars, writerVars, timeout, acquiredAt, now, tpc, hung, stepStart, hardAt,
                 closeAt, pageT, tool, toolFate, raceWinner, result, outcomes,
                 hardFiredAt, resultAt>>

\* finally: page.close() settles first; auditSite returns.
CloseResolve ==
  /\ tpc = "finally"
  /\ hung = "no"
  /\ tpc' = "returned"
  /\ pageT' = IF pageT = "forceClosed" THEN "forceClosed" ELSE "closed"
  /\ closeAt' = -1
  /\ UNCHANGED <<concVars, setupVars, poolVars, writerVars, timeout, acquiredAt, now, hung, stepStart, hardAt, tool,
                 toolFate, raceWinner, lateWork, result, outcomes, hardFiredAt, resultAt>>

\* finally: the 5 s timer settles first; auditSite returns with the close
\* still pending.
ReleaseTimerFires ==
  /\ tpc = "finally"
  /\ now = closeAt
  /\ tpc' = "returned"
  /\ closeAt' = -1
  /\ UNCHANGED <<concVars, setupVars, poolVars, writerVars, timeout, acquiredAt, now, hung, stepStart, hardAt, pageT,
                 tool, toolFate, raceWinner, lateWork, result, outcomes, hardFiredAt,
                 resultAt>>

TaskNext ==
  \/ Tick
  \/ \E kind \in {"pending", "blocked"} : Hang(kind)
  \/ TNewPageResolve
  \/ TNewPageReject
  \/ GotoResolve
  \/ GotoTimeout
  \/ StabilizeStable
  \/ StabilizeMaxWait
  \/ InjectResolve
  \/ TWorkReject
  \/ \E found \in FoundChoices : AxeResolve(found)
  \/ AxeThrow
  \/ AxeTimeout
  \/ \E found \in FoundChoices : AlReturn(found)
  \/ AlThrow
  \/ \E found \in FoundChoices : IbmResolve(found)
  \/ IbmThrow
  \/ IbmTimeout
  \/ EvaluateResolve
  \/ HardTimerFires
  \/ AbandonedWorkSettles
  \/ CloseResolve
  \/ ReleaseTimerFires

\* ------------------------------------------------------------------ the sampler
\* 32-bit words are pairs <<high half, low half>> of 16-bit numbers, so that
\* no intermediate value leaves the range of the checker's integers.
Half == 65536
Byte == 256

RECURSIVE BitXor(_, _, _)
BitXor(a, b, n) ==
  IF n = 0 THEN 0
  ELSE (((a % 2) + (b % 2)) % 2) + 2 * BitXor(a \div 2, b \div 2, n - 1)

RECURSIVE BitOr(_, _, _)
BitOr(a, b, n) ==
  IF n = 0 THEN 0
  ELSE (IF (a % 2) + (b % 2) > 0 THEN 1 ELSE 0) + 2 * BitOr(a \div 2, b \div 2, n - 1)

RECURSIVE Pow2(_)
Pow2(n) == IF n = 0 THEN 1 ELSE 2 * Pow2(n - 1)

\* x ^ y, x | y on 32-bit words.
WXor(x, y) == <<BitXor(x[1], y[1], 16), BitXor(x[2], y[2], 16)>>
WOr(x, y) == <<BitOr(x[1], y[1], 16), BitOr(x[2], y[2], 16)>>

\* (x + y) | 0.
WAdd(x, y) ==
  LET lo == x[2] + y[2]
  IN <<(x[1] + y[1] + (lo \div Half)) % Half, lo % Half>>

\* x >>> n, for 0 < n < 16.
WShr(x, n) ==
  <<x[1] \div Pow2(n), (x[2] \div Pow2(n)) + (x[1] % Pow2(n)) * Pow2(16 - n)>>

\* The 32-bit product of two 16-bit numbers, as a word.
Mul16(a, b) ==
  LET a1 == a \div Byte
      a0 == a % Byte
      b1 == b \div Byte
      b0 == b % Byte
      mid == a1 * b0 + a0 * b1
      t == a0 * b0 + (mid % Byte) * Byte
  IN <<(a1 * b1 + (mid \div Byte) + (t \div Half)) % Half, t % Half>>

\* Math.imul(x, y): the low 32 bits of the product.
WMul(x, y) ==
  LET p == Mul16(x[2], y[2])
  IN <<(p[1] + Mul16(x[1], y[2])[2] + Mul16(x[2], y[1])[2]) % Half, p[2]>>

\* The word of a non-negative integer below 2^31.
Word(n) == <<n \div Half, n % Half>>

\* One call of the function returned by mulberry32: the closure's new seed
\* and the 32-bit numerator of the number returned (x / 4294967296).
Mulberry32Step(seed) ==
  LET s == WAdd(seed, <<27947, 31221>>)
      t1 == WMul(WXor(s, WShr(s, 15)), WOr(Word(1), s))
      t2 == WXor(WAdd(t1, WMul(WXor(t1, WShr(t1, 7)), WOr(Word(61), t1))), t1)
  IN [seed |-> s, out |-> WXor(t2, WShr(t2, 14))]

\* An index drawn below the current position only: Math.floor(rng() * i).
FloorScaleBelow(u, m) == (u[1] * (m - 1) + ((u[2] * (m - 1)) \div Half)) \div Half
\* Math.floor(rng() * m) for the numerator u of rng(), 1 <= m < 2^15.
FloorScale(u, m) == (u[1] * m + ((u[2] * m) \div Half)) \div Half

\* [arr[i], arr[j]] = [arr[j], arr[i]], on 0-based positions.
Swap(arr, i, j) == [arr EXCEPT ![i + 1] = arr[j + 1], ![j + 1] = arr[i + 1]]

\* The loop of seededSample: for (let i = arr.length - 1; i > 0; i--).
RECURSIVE ShuffleFrom(_, _, _)
ShuffleFrom(arr, i, seed) ==
  IF i > 0
    THEN LET r == Mulberry32Step(seed)
         IN ShuffleFrom(Swap(arr, i, FloorScale(r.out, i + 1)), i - 1, r.seed)
    ELSE [arr |-> arr, seed |-> seed]

\* arr.slice(start, end) for 0 <= start, 0 <= end.
Slice(arr, start, end) ==
  LET e == Min(end, Len(arr))
  IN IF start >= e THEN <<>> ELSE SubSeq(arr, start + 1, e)

\* seededSample(items, n, seed) with the closure's state at the start; the
\* state at the end is returned with the sample, and so is the array items
\* as the call leaves it: the loop works on arr = items.slice().
SeededSample(list, n, seed) ==
  LET sh == ShuffleFrom(list, Len(list) - 1, seed)
  IN [sample |-> Slice(sh.arr, 0, n), seed |-> sh.seed, items |-> list]

\* ------------------------------------------------------------------ the population
MaxPopulation == 4
MaxShards == 3

DOT == "."

\* Host names of the list, as character groups; the last has capitals and its
\* origin carries a port.
HostPatterns ==
  << <<"www", DOT, "example", DOT, "com">>,
     <<"example", DOT, "com">>,
     <<"a", DOT, "b", DOT, "example", DOT, "com">>,
     <<"other", DOT, "com">>,
     <<"Shop", DOT, "other", DOT, "com">> >>

PortTokens == {":8443"}

\* The i-th record of the CrUX list: { origin, rank }.
CruxRecord(i) ==
  LET host == HostPatterns[((i - 1) % Len(HostPatterns)) + 1]
      sub == IF i > Len(HostPatterns) THEN <<ToString(i), DOT>> ELSE <<>>
      port == IF i % Len(HostPatterns) = 0 THEN <<":8443">> ELSE <<>>
  IN [origin |-> <<"https://">> \o sub \o host \o port, rank |-> 1000 * i]

Populations == { [i \in 1..n |-> CruxRecord(i)] : n \in 0..MaxPopulation }

Denylists ==
  { {},
    { <<"example", DOT, "com">> },
    { <<"other", DOT, "com">> },
    { <<"com">> },
    { <<"b", DOT, "example", DOT, "com">>, <<"shop", DOT, "other", DOT, "com">> } }

\* String.prototype.toLowerCase on one character group.
Lower(t) == IF t = "Shop" THEN "shop" ELSE t

\* hostnameFromOrigin: new URL(origin).hostname.toLowerCase().
HostnameFromOrigin(origin) ==
  LET host == SelectSeq(Tail(origin), LAMBDA t : t \notin PortTokens)
  IN [p \in 1..Len(host) |-> Lower(host[p])]

\* hostname.split(".").
RECURSIVE SplitDots(_, _, _)
SplitDots(str, cur, acc) ==
  IF str = <<>> THEN Append(acc, cur)
  ELSE IF Head(str) = DOT THEN SplitDots(Tail(str), <<>>, Append(acc, cur))
  ELSE SplitDots(Tail(str), Append(cur, Head(str)), acc)

\* parts.join(".").
RECURSIVE JoinDots(_)
JoinDots(parts) ==
  IF parts = <<>> THEN <<>>
  ELSE IF Len(parts) = 1 THEN Head(parts)
  ELSE Head(parts) \o <<DOT>> \o JoinDots(Tail(parts))

\* A filter whose loop runs up to the last label: the bare top-level label
\* is tried as well.
IsBlockedAnySuffix(hostname, blocklist) ==
  \/ hostname \in blocklist
  \/ LET parts == SplitDots(hostname, <<>>, <<>>)
     IN \E i \in 1..(Len(parts) - 1) :
          JoinDots(SubSeq(parts, i + 1, Len(parts))) \in blocklist
\* isBlocked: the hostname itself, then parts.slice(i).join(".") for
\* i = 1 .. parts.length - 2.
IsBlocked(hostname, blocklist) ==
  \/ hostname \in blocklist
  \/ LET parts == SplitDots(hostname, <<>>, <<>>)
     IN \E i \in 1..(Len(parts) - 2) :
          JoinDots(SubSeq(parts, i + 1, Len(parts))) \in blocklist

\* allSites.filter((s) => !isBlocked(hostnameFromOrigin(s.origin), blocklist)).
Filtered(list, blocklist) ==
  SelectSeq(list, LAMBDA r : ~IsBlocked(HostnameFromOrigin(r.origin), blocklist))

\* A sampler that asks for the whole filtered list.
SampleCountAll(size, n) == n
\* Math.min(sampleSize, filtered.length).
SampleCount(size, n) == Min(size, n)

\* A generator that goes on from the state the last call left behind.
RngInitShared(seed, prev) == IF prev = <<>> THEN Word(seed) ELSE prev
\* mulberry32(seed): a new closure for every call of seededSample; seed |= 0.
RngInit(seed, prev) == Word(seed)

\* Date.now(), different in every run.
ClockSeed(run) == 1700000 + run

\* The tail of downloadAndSample, from the filter on.
FilterAndSample(list, blocklist, size, seed, prev) ==
  LET filtered == Filtered(list, blocklist)
  IN SeededSample(filtered, SampleCount(size, Len(filtered)), RngInit(seed, prev))

\* ------------------------------------------------------------------ the shard option
\* The characters of a non-negative integer.
RECURSIVE Digits(_)
Digits(n) ==
  IF n < 10 THEN <<ToString(n)>> ELSE Digits(n \div 10) \o <<ToString(n % 10)>>

DigitChars == { ToString(d) : d \in 0..9 }
DigitValue(c) == CHOOSE d \in 0..9 : ToString(d) = c

\* shardArg.split("/").
RECURSIVE SplitSlash(_, _, _)
SplitSlash(str, cur, acc) ==
  IF str = <<>> THEN Append(acc, cur)
  ELSE IF Head(str) = "/" THEN SplitSlash(Tail(str), <<>>, Append(acc, cur))
  ELSE SplitSlash(Tail(str), Append(cur, Head(str)), acc)

\* parseInt(text, 10): an optional sign and the leading digits; NaN when
\* there is no leading digit.
RECURSIVE ParseDigits(_, _)
ParseDigits(str, acc) ==
  IF str = <<>> \/ Head(str) \notin DigitChars THEN acc
  ELSE ParseDigits(Tail(str), 10 * acc + DigitValue(Head(str)))

ParseInt(str) ==
  LET neg == str # <<>> /\ Head(str) = "-"
      body == IF neg THEN Tail(str) ELSE str
  IN IF body = <<>> \/ Head(body) \notin DigitChars THEN [nan |-> TRUE, value |-> 0]
     ELSE [nan |-> FALSE,
           value |-> IF neg THEN 0 - ParseDigits(body, 0) ELSE ParseDigits(body, 0)]

\* parseArg returned undefined.
Absent == <<"undefined">>

\* The texts given to --shard: every INDEX/TOTAL with small numbers, and
\* texts that are not of that form.
ShardArgs ==
  {Absent}
  \cup { Digits(k) \o <<"/">> \o Digits(m) : k \in 0..(MaxShards + 1), m \in 1..MaxShards }
  \cup { <<"1", "/", "0">>, <<"x", "/", "2">>, <<"1", "/", "x">>, <<"2">>, <<"1", "/", "2", "/", "3">>,
         <<"-", "1", "/", "2">>, <<"1", "/", "2", "x">>, <<>> }

\* if (shardArg): the option is present and its text is not empty.
ShardGiven(text) == text # Absent /\ text # <<>>

\* web-bench.ts 24-32: the two throws of the shard parsing.
ShardArgThrows(text) ==
  LET parts == SplitSlash(text, <<>>, <<>>)
  IN \/ Len(parts) # 2
     \/ LET shardIndex == ParseInt(parts[1])
            shardTotal == ParseInt(parts[2])
        IN \/ shardIndex.nan
           \/ shardTotal.nan
           \/ shardIndex.value < 1
           \/ shardIndex.value > shardTotal.value

\* shardIndex and shardTotal of an accepted text.
ParsedShard(text) ==
  LET parts == SplitSlash(text, <<>>, <<>>)
  IN <<ParseInt(parts[1]).value, ParseInt(parts[2]).value>>

\* A chunk size that rounds down.
ChunkSizeFloor(n, total) == n \div total
\* Math.ceil(allSites.length / options.shardTotal).
ChunkSize(n, total) == (n + total - 1) \div total

\* A slice that ends one element after its chunk.
ShardSliceOverlapping(list, sh) ==
  IF sh = <<>> THEN list
  ELSE LET chunkSize == ChunkSize(Len(list), sh[2])
           start == (sh[1] - 1) * chunkSize
           end == Min(start + chunkSize + 1, Len(list))
       IN Slice(list, start, end)
\* web-bench.ts 54-61: the sites of the shard.
ShardSlice(list, sh) ==
  IF sh = <<>> THEN list
  ELSE LET chunkSize == ChunkSize(Len(list), sh[2])
           start == (sh[1] - 1) * chunkSize
           end == Min(start + chunkSize, Len(list))
       IN Slice(list, start, end)

\* ------------------------------------------------------------------ the start of the run
Sizes == 0..(MaxPopulation + 1)
\* options.seed is undefined.
NoSeed == -1
Seeds == {42, NoSeed}

SetupInit ==
  /\ argvShard \in ShardArgs
  /\ argvSize \in Sizes
  /\ argvSeed \in Seeds
  /\ cruxList \in Populations
  /\ denylist \in Denylists
  /\ setupPc = "args"
  /\ shard = <<>>
  /\ allSites = <<>>
  /\ shardSites = <<>>
  /\ rngSeed = <<>>
  /\ itemsAfter = <<>>
  /\ fetches = 0
  /\ fetchFailed = FALSE
  /\ storeOpened = FALSE
  /\ runNo = 1
  /\ prevSample = <<>>
  /\ prevPc = "none"

\* The setup variables while another specification runs.
SetupIdle ==
  /\ argvShard = Absent
  /\ argvSize = 0
  /\ argvSeed = NoSeed
  /\ cruxList = <<>>
  /\ denylist = {}
  /\ setupPc = "idle"
  /\ shard = <<>>
  /\ allSites = <<>>
  /\ shardSites = <<>>
  /\ rngSeed = <<>>
  /\ itemsAfter = <<>>
  /\ fetches = 0
  /\ fetchFailed = FALSE
  /\ storeOpened = FALSE
  /\ runNo = 1
  /\ prevSample = <<>>
  /\ prevPc = "none"

\* web-bench.ts 20-51: the shard option is parsed, the options are built and
\* downloadAndSample is called, which starts the fetch of the CrUX list.
ParseArgs ==
  /\ setupPc = "args"
  /\ IF ShardGiven(argvShard) /\ ShardArgThrows(argvShard)
       THEN /\ setupPc' = "fatal"
            /\ UNCHANGED <<shard, fetches>>
       ELSE /\ shard' = IF ShardGiven(argvShard) THEN ParsedShard(argvShard) ELSE <<>>
            /\ fetches' = fetches + 1
            /\ setupPc' = "fetchCrux"
  /\ UNCHANGED <<fetchFailed, argvShard, argvSize, argvSeed, cruxList, denylist, allSites, shardSites,
                 rngSeed, itemsAfter, storeOpened, runNo, prevSample, prevPc, poolVars, writerVars,
                 taskVars, concVars>>

\* fetchGzippedText resolves; parseCrux; the fetch of the hosts file starts.
FetchCruxResolve ==
  /\ setupPc = "fetchCrux"
  /\ fetches' = fetches + 1
  /\ setupPc' = "fetchBlocklist"
  /\ UNCHANGED <<fetchFailed, argvShard, argvSize, argvSeed, cruxList, denylist, shard, allSites,
                 shardSites, rngSeed, itemsAfter, storeOpened, runNo, prevSample, prevPc, poolVars,
                 writerVars, taskVars, concVars>>

\* A sampler that goes on without the list it could not get.
FetchFailureSkipped(pc) == IF pc = "fetchCrux" THEN "fetchBlocklist" ELSE "launch"
\* The script after fetchGzippedText or fetchText has thrown: nothing catches
\* the error.
FetchFailureAfter(pc) == "fatal"

\* A fetch of downloadAndSample rejects or answers with a status that is not
\* ok (or without a body): the function throws, downloadAndSample rejects and
\* the top-level await of the script throws.
FetchReject ==
  /\ setupPc \in {"fetchCrux", "fetchBlocklist"}
  /\ fetchFailed' = TRUE
  /\ setupPc' = FetchFailureAfter(setupPc)
  /\ UNCHANGED <<argvShard, argvSize, argvSeed, cruxList, denylist, shard, allSites,
                 shardSites, rngSeed, itemsAfter, fetches, storeOpened, runNo, prevSample, prevPc, poolVars,
                 writerVars, taskVars, concVars>>

\* fetchText resolves: parseBlocklist, the filter and seededSample; back in the
\* script the sharding step runs and chromium.launch() is awaited.
FetchBlocklistResolve ==
  /\ setupPc = "fetchBlocklist"
  /\ LET effectiveSeed == IF argvSeed = NoSeed THEN ClockSeed(runNo) ELSE argvSeed
         s == FilterAndSample(cruxList, denylist, argvSize, effectiveSeed, rngSeed)
     IN /\ allSites' = s.sample
        /\ rngSeed' = s.seed
        /\ itemsAfter' = s.items
        /\ shardSites' = ShardSlice(s.sample, shard)
  /\ setupPc' = "launch"
  /\ UNCHANGED <<fetchFailed, argvShard, argvSize, argvSeed, cruxList, denylist, shard, fetches,
                 storeOpened, runNo, prevSample, prevPc, poolVars, writerVars, taskVars, concVars>>

\* The browser and its context are there: the writer is made and
\* runWithConcurrency is called with the sites.
LaunchResolve ==
  /\ setupPc = "launch"
  /\ storeOpened' = TRUE
  /\ setupPc' = "dispatch"
  /\ UNCHANGED <<fetchFailed, argvShard, argvSize, argvSeed, cruxList, denylist, shard, allSites,
                 shardSites, rngSeed, itemsAfter, fetches, runNo, prevSample, prevPc, poolVars, writerVars,
                 taskVars, concVars>>

\* chromium.launch() or browser.newContext() rejects.
LaunchReject ==
  /\ setupPc = "launch"
  /\ setupPc' = "fatal"
  /\ UNCHANGED <<fetchFailed, argvShard, argvSize, argvSeed, cruxList, denylist, shard, allSites,
                 shardSites, rngSeed, itemsAfter, fetches, storeOpened, runNo, prevSample, prevPc, poolVars,
                 writerVars, taskVars, concVars>>

\* The script is started a second time with the same arguments, against the
\* same lists.
Rerun ==
  /\ setupPc \in {"dispatch", "fatal"}
  /\ runNo = 1
  /\ runNo' = runNo + 1
  /\ prevSample' = allSites
  /\ prevPc' = setupPc
  /\ setupPc' = "args"
  /\ shard' = <<>>
  /\ allSites' = <<>>
  /\ shardSites' = <<>>
  /\ fetches' = 0
  /\ fetchFailed' = FALSE
  /\ storeOpened' = FALSE
  /\ UNCHANGED <<argvShard, argvSize, argvSeed, cruxList, denylist, rngSeed, itemsAfter, poolVars,
                 writerVars, taskVars, concVars>>

SetupNext ==
  \/ ParseArgs
  \/ FetchCruxResolve
  \/ FetchReject
  \/ FetchBlocklistResolve
  \/ LaunchResolve
  \/ LaunchReject
  \/ Rerun

\* ------------------------------------------------------------------ Cohen's kappa
MaxCount == 8

\* A JavaScript number that came out of integer counts, kept as a fraction in
\* lowest terms with den > 0. den = 0 stands for the NaN or Infinity that a
\* division by zero gives.
RECURSIVE GCD(_, _)
GCD(x, y) == IF y = 0 THEN x ELSE GCD(y, x % y)

Abs(x) == IF x < 0 THEN -x ELSE x

Rat(n, d) ==
  IF d = 0 THEN [num |-> 0, den |-> 0]
  ELSE LET g == GCD(Abs(n), Abs(d))
       IN [num |-> (IF d < 0 THEN -n ELSE n) \div g, den |-> Abs(d) \div g]

One == [num |-> 1, den |-> 1]

RAdd(x, y) == Rat((x.num * y.den) + (y.num * x.den), x.den * y.den)
RSub(x, y) == Rat((x.num * y.den) - (y.num * x.den), x.den * y.den)
RMul(x, y) == Rat(x.num * y.num, x.den * y.den)
RDiv(x, y) == IF x.den = 0 \/ y.den = 0 THEN Rat(0, 0) ELSE Rat(x.num * y.den, x.den * y.num)

\* An expected agreement that leaves out the term of the two "no" answers.
ExpectedAgreementProductOnly(p1, p2) == RMul(p1, p2)
\* pe = p1 * p2 + (1 - p1) * (1 - p2)
ExpectedAgreement(p1, p2) == RAdd(RMul(p1, p2), RMul(RSub(One, p1), RSub(One, p2)))

\* A kappa computed without the test of pe.
KappaUnguarded(po, pe) == RDiv(RSub(po, pe), RSub(One, pe))
\* pe === 1 ? 1 : (po - pe) / (1 - pe)
KappaOf(po, pe) == IF pe = One THEN One ELSE RDiv(RSub(po, pe), RSub(One, pe))

\* part_005 308-316: cohenKappa(a, b, c, d).
CohenKappa(a, b, c, d) ==
  LET n == a + b + c + d
  IN IF n = 0 THEN One
     ELSE LET po == Rat(a + d, n)
              p1 == Rat(a + b, n)
              p2 == Rat(a + c, n)
          IN KappaOf(po, ExpectedAgreement(p1, p2))

\* concordance.ts 42: agreement = (bothFound + neitherFound) / totalPages.
Agreement(bothFound, neitherFound, totalPages) == Rat(bothFound + neitherFound, totalPages)

\* concordance.ts 42-48: the kappa computed inside the loop of the two-tool
\* calculateConcordance.
KappaInline(bothFound, axeOnly, alOnly, neitherFound, totalPages) ==
  LET agreement == Agreement(bothFound, neitherFound, totalPages)
      pAxe == Rat(bothFound + axeOnly, totalPages)
      pAl == Rat(bothFound + alOnly, totalPages)
  IN KappaOf(agreement, ExpectedAgreement(pAxe, pAl))

KappaInit ==
  /\ kTable \in (0..MaxCount) \X (0..MaxCount) \X (0..MaxCount) \X (0..MaxCount)
  /\ kappa = Rat(0, 1)
  /\ kpc = "ready"

KappaIdle ==
  /\ kTable = <<0, 0, 0, 0>>
  /\ kappa = Rat(0, 1)
  /\ kpc = "idle"

\* cohenKappa is called with the table.
CallCohenKappa ==
  /\ kpc = "ready"
  /\ kappa' = CohenKappa(kTable[1], kTable[2], kTable[3], kTable[4])
  /\ kpc' = "cohenKappa"
  /\ UNCHANGED <<kTable, results, concordances, concordancesPair, callVars, poolVars,
                 writerVars, taskVars, setupVars>>

\* The loop body of the two-tool version runs for a criterion with this table;
\* totalPages is the table's total and is not 0 there (concordance.ts 17).
RunKappaInline ==
  /\ kpc = "ready"
  /\ kTable[1] + kTable[2] + kTable[3] + kTable[4] > 0
  /\ kappa' = KappaInline(kTable[1], kTable[2], kTable[3], kTable[4],
                          kTable[1] + kTable[2] + kTable[3] + kTable[4])
  /\ kpc' = "inline"
  /\ UNCHANGED <<kTable, results, concordances, concordancesPair, callVars, poolVars,
                 writerVars, taskVars, setupVars>>

KappaNext ==
  \/ CallCohenKappa
  \/ RunKappaInline

\* ------------------------------------------------------------------ concordance
MaxResults == 3

Range(seq) == { seq[p] : p \in DOMAIN seq }

\* The criteria in the order [...allCriteria].sort() puts them.
SortedCriteria == <<"1.1.1", "4.1.2">>
Rank(c) == CHOOSE i \in DOMAIN SortedCriteria : SortedCriteria[i] = c

\* A shape names, for every criterion, the tools that found it on a page.
OkShapes ==
  { <<s, {}>> : s \in { {}, {"axe"}, {"al"}, {"ibm"}, {"axe", "al"}, Tools } }
  \cup { <<{}, Tools>>,
         <<{"axe", "al"}, {"axe", "ibm"}>> }
ErrorShapes == { <<{}, {}>>, <<Tools, Tools>> }

FoundBy(shape, name) ==
  { SortedCriteria[i] : i \in { j \in DOMAIN SortedCriteria : name \in shape[j] } }

\* The fields of a SiteResult that calculateConcordance reads, and
\* failedTools, the tools whose axeStatus, alStatus or ibmStatus is "error":
\* all three in the result built by auditSite's catch. ibmGiven is FALSE for a
\* record written before the third tool existed, which has no ibmWcagCriteria
\* field.
SiteResultOf(status, shape, ibmGiven) ==
  [status |-> status,
   axeWcagCriteria |-> FoundBy(shape, "axe"),
   alWcagCriteria |-> FoundBy(shape, "al"),
   ibmWcagCriteria |-> IF ibmGiven THEN FoundBy(shape, "ibm") ELSE {},
   ibmGiven |-> ibmGiven,
   failedTools |-> IF status = "error" THEN Tools ELSE {}]

\* auditor.ts 199-237, 443-465: a result with status ok in which the tools of
\* failed ended in their catch: their violations stay [], so their criteria
\* lists are empty whatever is on the page.
SiteResultWithFailedTools(shape, failed) ==
  [SiteResultOf("ok", [j \in DOMAIN shape |-> shape[j] \ failed], TRUE)
     EXCEPT !.failedTools = failed]

SiteResults ==
  { SiteResultOf("ok", sh, TRUE) : sh \in OkShapes }
  \cup { SiteResultOf("ok", <<{"axe", "al"}, {}>>, FALSE) }
  \cup { SiteResultWithFailedTools(<<Tools, {"al"}>>, {"axe"}),
         SiteResultWithFailedTools(<<Tools, Tools>>, {"al", "ibm"}) }
  \cup { SiteResultOf("error", sh, TRUE) : sh \in ErrorShapes }

\* A filter that also drops the pages on which a tool failed.
OkResultsAllToolsOk(results_) ==
  SelectSeq(results_, LAMBDA r : r.status = "ok" /\ r.failedTools = {})
\* A table built from every result, whatever its status.
OkResultsUnfiltered(results_) == results_
\* results.filter((r) => r.status === "ok")
OkResults(results_) == SelectSeq(results_, LAMBDA r : r.status = "ok")

\* r.ibmWcagCriteria ?? []
IbmCriteria(r) == IF r.ibmGiven THEN r.ibmWcagCriteria ELSE {}

\* for (const c of list) allCriteria.add(c): a Set keeps insertion order, and
\* a criterion already in it stays where it is.
RECURSIVE AddEach(_, _)
AddEach(acc, list) ==
  LET new == list \ Range(acc)
  IN IF new = {} THEN acc
     ELSE LET c == CHOOSE x \in new : \A y \in new : Rank(x) <= Rank(y)
          IN AddEach(Append(acc, c), list)

\* part_005 335-340: the loop that fills allCriteria.
RECURSIVE CollectCriteria(_, _, _)
CollectCriteria(okResults, i, acc) ==
  IF i > Len(okResults) THEN acc
  ELSE LET r == okResults[i]
       IN CollectCriteria(okResults, i + 1,
            AddEach(AddEach(AddEach(acc, r.axeWcagCriteria), r.alWcagCriteria),
                    IbmCriteria(r)))

\* concordance.ts 19-23: the same loop with two tools.
RECURSIVE CollectCriteriaPair(_, _, _)
CollectCriteriaPair(okResults, i, acc) ==
  IF i > Len(okResults) THEN acc
  ELSE LET r == okResults[i]
       IN CollectCriteriaPair(okResults, i + 1,
            AddEach(AddEach(acc, r.axeWcagCriteria), r.alWcagCriteria))

\* An order of the entries that follows the order in which the criteria were
\* first met.
SortCriteriaKeepOrder(seq) == seq
\* [...allCriteria].sort()
SortCriteria(seq) ==
  [i \in 1..Len(seq) |->
     CHOOSE c \in Range(seq) : Cardinality({ d \in Range(seq) : Rank(d) < Rank(c) }) = i - 1]

\* A chain whose last branch counts nothing.
Tally2NoNeither(t, x, y) ==
  IF x /\ y THEN [t EXCEPT ![1] = @ + 1]
  ELSE IF x THEN [t EXCEPT ![2] = @ + 1]
  ELSE IF y THEN [t EXCEPT ![3] = @ + 1]
  ELSE t
\* if (x && y) both++; else if (x) firstOnly++; else if (y) secondOnly++;
\* else neither++. A table is <<both, firstOnly, secondOnly, neither>>.
Tally2(t, x, y) ==
  IF x /\ y THEN [t EXCEPT ![1] = @ + 1]
  ELSE IF x THEN [t EXCEPT ![2] = @ + 1]
  ELSE IF y THEN [t EXCEPT ![3] = @ + 1]
  ELSE [t EXCEPT ![4] = @ + 1]

\* A count that leaves the third tool out.
FoundCountPair(axeHas, alHas, ibmHas) ==
  (IF axeHas THEN 1 ELSE 0) + (IF alHas THEN 1 ELSE 0)
\* (axeHas ? 1 : 0) + (alHas ? 1 : 0) + (ibmHas ? 1 : 0)
FoundCount(axeHas, alHas, ibmHas) ==
  (IF axeHas THEN 1 ELSE 0) + (IF alHas THEN 1 ELSE 0) + (IF ibmHas THEN 1 ELSE 0)

ZeroTally ==
  [allThree |-> 0, twoOfThree |-> 0, oneOnly |-> 0, noneFound |-> 0,
   axeAl |-> <<0, 0, 0, 0>>, axeIbm |-> <<0, 0, 0, 0>>, alIbm |-> <<0, 0, 0, 0>>]

\* part_005 350-377: the body of the loop over okResults for one criterion.
TallyResult(t, r, criterion) ==
  LET axeHas == criterion \in r.axeWcagCriteria
      alHas == criterion \in r.alWcagCriteria
      ibmHas == criterion \in IbmCriteria(r)
      count == FoundCount(axeHas, alHas, ibmHas)
  IN [allThree |-> IF count = 3 THEN t.allThree + 1 ELSE t.allThree,
      twoOfThree |-> IF count = 2 THEN t.twoOfThree + 1 ELSE t.twoOfThree,
      oneOnly |-> IF count = 1 THEN t.oneOnly + 1 ELSE t.oneOnly,
      noneFound |-> IF count \notin {1, 2, 3} THEN t.noneFound + 1 ELSE t.noneFound,
      axeAl |-> Tally2(t.axeAl, axeHas, alHas),
      axeIbm |-> Tally2(t.axeIbm, axeHas, ibmHas),
      alIbm |-> Tally2(t.alIbm, alHas, ibmHas)]

RECURSIVE TallyFrom(_, _, _, _)
TallyFrom(okResults, i, criterion, t) ==
  IF i > Len(okResults) THEN t
  ELSE TallyFrom(okResults, i + 1, criterion, TallyResult(t, okResults[i], criterion))

\* part_005 385-387: the kappa of a pairwise table.
KappaOfTable(t) == CohenKappa(t[1], t[2], t[3], t[4])

\* part_005 324-392. An entry carries the four multi-way counts and, for each
\* pair of tools, the table that is handed to cohenKappa and the kappa that
\* comes back.
CalculateConcordance(results_) ==
  LET okResults == OkResults(results_)
      totalPages == Len(okResults)
  IN IF totalPages = 0 THEN <<>>
     ELSE LET sorted == SortCriteria(CollectCriteria(okResults, 1, <<>>))
          IN [k \in 1..Len(sorted) |->
                LET t == TallyFrom(okResults, 1, sorted[k], ZeroTally)
                IN [criterion |-> sorted[k],
                    axeAlKappa |-> KappaOfTable(t.axeAl),
                    axeIbmKappa |-> KappaOfTable(t.axeIbm),
                    alIbmKappa |-> KappaOfTable(t.alIbm)] @@ t]

RECURSIVE TallyPairFrom(_, _, _, _)
TallyPairFrom(okResults, i, criterion, t) ==
  IF i > Len(okResults) THEN t
  ELSE TallyPairFrom(okResults, i + 1, criterion,
         Tally2(t, criterion \in okResults[i].axeWcagCriteria,
                   criterion \in okResults[i].alWcagCriteria))

\* concordance.ts 14-62, the two-tool calculateConcordance: an entry carries
\* the table <<bothFound, axeOnly, alOnly, neitherFound>>, the agreement rate
\* and kappa.
CalculateConcordancePair(results_) ==
  LET okResults == OkResults(results_)
      totalPages == Len(okResults)
  IN IF totalPages = 0 THEN <<>>
     ELSE LET sorted == SortCriteria(CollectCriteriaPair(okResults, 1, <<>>))
          IN [k \in 1..Len(sorted) |->
                LET t == TallyPairFrom(okResults, 1, sorted[k], <<0, 0, 0, 0>>)
                IN [criterion |-> sorted[k], bothFound |-> t[1], axeOnly |-> t[2],
                    alOnly |-> t[3], neitherFound |-> t[4],
                    agreement |-> Agreement(t[1], t[4], totalPages),
                    cohenKappa |-> KappaInline(t[1], t[2], t[3], t[4], totalPages)]]

\* ------------------------------------------------------------------ calls of calculateConcordance
MaxCalls == 2

\* The collections handed to calculateConcordance in CallSpec: lists of a
\* page where only the second criterion was found, one where only the first
\* was, one with both, and a result with status error.
CallResults ==
  { SiteResultOf("ok", <<{}, Tools>>, TRUE),
    SiteResultOf("ok", <<{"axe"}, {}>>, TRUE),
    SiteResultOf("ok", <<{"axe", "al"}, {"axe", "ibm"}>>, TRUE),
    SiteResultOf("error", <<Tools, Tools>>, TRUE) }

RECURSIVE ListsUpTo(_)
ListsUpTo(n) ==
  IF n = 0 THEN { <<>> }
  ELSE ListsUpTo(n - 1)
       \cup { Append(l, r) : l \in { x \in ListsUpTo(n - 1) : Len(x) = n - 1 }, r \in CallResults }

\* A filter done in place, on the caller's array.
ArgumentFilteredInPlace(list) == SelectSeq(list, LAMBDA r : r.status = "ok")
\* The caller's array after a call: filter, the spread into a new array and
\* sort all work on copies, and no element is written to.
ArgumentAfterCall(list) == list

CallInit ==
  /\ results \in ListsUpTo(MaxResults)
  /\ concordances = <<>>
  /\ concordancesPair = <<>>
  /\ calls = 0
  /\ givenResults = <<>>
  /\ firstTables = << <<>>, <<>> >>
  /\ permuted = FALSE
  /\ KappaIdle

CallIdle ==
  /\ calls = 0
  /\ givenResults = <<>>
  /\ firstTables = << <<>>, <<>> >>
  /\ permuted = FALSE

\* web-bench.ts 121, generate-index.ts 326: calculateConcordance(results).
CallCalculateConcordance ==
  /\ calls < MaxCalls
  /\ concordances' = CalculateConcordance(results)
  /\ concordancesPair' = CalculateConcordancePair(results)
  /\ results' = ArgumentAfterCall(results)
  /\ calls' = calls + 1
  /\ IF calls = 0
       THEN /\ givenResults' = results
            /\ firstTables' = <<concordances', concordancesPair'>>
       ELSE UNCHANGED <<givenResults, firstTables>>
  /\ UNCHANGED <<permuted, kappaVars, poolVars, writerVars, taskVars, setupVars>>

\* The same results reach the call in another order: two neighbours of the
\* list change places (the tasks completed in another order) and the table is
\* computed for the new list.
CallOnPermutation ==
  /\ calls >= 1
  /\ \E i \in 1..(Len(results) - 1) :
       /\ results[i] # results[i + 1]
       /\ results' = [results EXCEPT ![i] = results[i + 1], ![i + 1] = results[i]]
  /\ concordances' = CalculateConcordance(results')
  /\ concordancesPair' = CalculateConcordancePair(results')
  /\ permuted' = TRUE
  /\ UNCHANGED <<calls, givenResults, firstTables, kappaVars, poolVars, writerVars,
                 taskVars, setupVars>>

CallNext ==
  \/ CallCalculateConcordance
  \/ CallOnPermutation

\* ------------------------------------------------------------------ lists of results
ConcInit ==
  /\ results \in { <<>> } \cup { <<r>> : r \in SiteResults }
  /\ concordances = CalculateConcordance(results)
  /\ concordancesPair = CalculateConcordancePair(results)
  /\ KappaIdle
  /\ CallIdle

ConcIdle ==
  /\ results = <<>>
  /\ concordances = <<>>
  /\ concordancesPair = <<>>
  /\ KappaIdle
  /\ CallIdle

\* The table is computed for the new list in the same step.
Recalculate ==
  /\ concordances' = CalculateConcordance(results')
  /\ concordancesPair' = CalculateConcordancePair(results')
  /\ UNCHANGED <<poolVars, writerVars, taskVars, setupVars, kappaVars, callVars>>

\* One more result in the list.
AddResult ==
  /\ Len(results) < MaxResults
  /\ \E r \in SiteResults : results' = Append(results, r)
  /\ Recalculate

\* One result less in the list.
RemoveResult ==
  /\ \E i \in DOMAIN results :
       results' = [j \in 1..(Len(results) - 1) |-> IF j < i THEN results[j] ELSE results[j + 1]]
  /\ Recalculate

\* A result with status error is replaced by another one with status error.
ChangeErrorResult ==
  /\ \E i \in DOMAIN results :
       /\ results[i].status = "error"
       /\ \E sh \in ErrorShapes :
            /\ SiteResultOf("error", sh, TRUE) # results[i]
            /\ results' = [results EXCEPT ![i] = SiteResultOf("error", sh, TRUE)]
  /\ Recalculate

ConcNext ==
  \/ AddResult
  \/ RemoveResult
  \/ ChangeErrorResult

\* ------------------------------------------------------------------ specifications
Init == PoolInit /\ WriterInit /\ TaskIdle /\ SetupIdle /\ ConcIdle
Next == PoolNext
Spec == Init /\ [][Next]_vars

TaskSpecInit == PoolIdle /\ WriterInit /\ TaskInit /\ SetupIdle /\ ConcIdle
TaskSpec == TaskSpecInit /\ [][TaskNext]_vars

SetupSpecInit == PoolIdle /\ WriterInit /\ TaskIdle /\ SetupInit /\ ConcIdle
SetupSpec == SetupSpecInit /\ [][SetupNext]_vars

ConcordanceSpecInit == PoolIdle /\ WriterInit /\ TaskIdle /\ SetupIdle /\ ConcInit
ConcordanceSpec == ConcordanceSpecInit /\ [][ConcNext]_vars

KappaSpecInit ==
  /\ PoolIdle /\ WriterInit /\ TaskIdle /\ SetupIdle
  /\ results = <<>> /\ concordances = <<>> /\ concordancesPair = <<>>
  /\ KappaInit
  /\ CallIdle
KappaSpec == KappaSpecInit /\ [][KappaNext]_vars

CallSpecInit == PoolIdle /\ WriterInit /\ TaskIdle /\ SetupIdle /\ CallInit
CallSpec == CallSpecInit /\ [][CallNext]_vars


\* ------------------------------------------------------------------ claims: the pool
\* Promise.all has settled: the pool resolved (the script went on), or a
\* worker rejected and took the script down.
PoolSettled ==
  mainPc \in {"closing", "closed", "summary"} \/ \E w \in workers : wpc[w] = "rejected"

\* The tasks in flight: claimed, their callback not yet run to its end.
InFlight == { w \in workers : wpc[w] \in {"newPage", "race", "finally"} }

\* C1: for every target list and every concurrency >= 1, whatever the order
\* in which tasks end, runWithConcurrency calls the callback exactly once for
\* each target (none skipped, none twice), and it resolves only after all N
\* calls have finished.
C1_EveryTargetOnce ==
  /\ \A i \in Positions : invoked[i] <= 1 /\ finished[i] <= invoked[i]
  /\ PoolSettled => \A i \in Positions : invoked[i] = 1
  /\ mainPc \in {"closing", "closed"} => \A i \in Positions : finished[i] = 1

\* C2: runWithConcurrency starts exactly min(concurrency, N) workers, and at
\* every moment at most `concurrency` tasks are in flight, whatever N is.
C2_BoundedFanOut ==
  mainPc # "start" =>
    /\ Cardinality(workers) = Min(concurrency, Len(items))
    /\ Cardinality(InFlight) <= concurrency
    /\ Cardinality({ i \in Positions : invoked[i] > finished[i] }) <= concurrency

\* C2 witness: more targets than workers, and as many tasks in flight as the
\* concurrency allows.
C2_Witness ==
  /\ Len(items) > concurrency
  /\ concurrency > 1
  /\ Cardinality(InFlight) = concurrency
  /\ completed > 0

\* C3: every failure inside a task ends in a SiteResult with status error that
\* auditSite returns normally: auditSite never rejects, so no worker stops on
\* a failed task, the pool never rejects, and the remaining targets are
\* processed.
C3_FailuresStayInsideTask ==
  /\ \A w \in workers : wpc[w] # "rejected"
  /\ mainPc = "crashed" => storeFailed

\* C10: the records reach the output in the order of the write() calls, one
\* complete JSON line per call: the text accepted by the stream (on disk and
\* still buffered) splits at the line feeds into exactly the JSON texts of the
\* written results, in call order, none cut, none twice, none missing; what is
\* on disk is always a whole number of those lines, and all of them once
\* close() has resolved.
C10_OneLinePerWriteInOrder ==
  LET accepted == Lines(file \o Flatten(buffer))
      onDisk == Lines(file)
  IN /\ accepted.rest = <<>>
     /\ accepted.lines = [i \in 1..Len(written) |-> JsonStringify(written[i])]
     /\ onDisk.rest = <<>>
     /\ onDisk.lines = SubSeq(accepted.lines, 1, Len(onDisk.lines))
     /\ mainPc = "closed" => buffer = <<>>

\* C10 witness: two workers completed tasks in an order other than the claim
\* order, one record carries an error text with a line feed and quotes, and
\* the file is closed.
C10_Witness ==
  /\ mainPc = "closed"
  /\ Len(written) >= 2
  /\ written[1].origin # Origin(1)
  /\ \E i \in 1..Len(written) :
       written[i].status = "error" /\ written[i].error = GotoTimeoutMessage


\* ------------------------------------------------------------------ claims: one task
TimedTools == {"axe", "ibm"}
TaskEnded == tpc \in {"returned", "rejected"}

\* C4 (as stated): when a task's analyzer call never resolves, the soft timer
\* (80% of the per-site timeout) ends it and the task is recorded with status
\* error and a timeout message.
C4_SoftTimeoutMakesTaskError ==
  (tpc = "returned" /\ \E t \in TimedTools : toolFate[t] = "timeout")
    => result.status = "error"

\* C4 (amended): when the call of a timed tool (axe-core, IBM) stays pending,
\* that tool's timer, set to 80% of the per-site timeout when the tool is
\* called, ends the wait: no later than that bound the tool, not the task, is
\* recorded with status error, time -1 and the message "audit timeout"; the
\* in-page code goes on, and a result returned from the try has status ok and
\* carries the tool's error. The task's status is error only when a later
\* step rejects or the hard deadline fires.
C4_SoftTimeoutMarksTool ==
  \A t \in TimedTools :
    /\ (tpc = t /\ hung # "blocked") => 5 * (now - stepStart) <= 4 * timeout
    /\ toolFate[t] = "timeout" =>
         /\ tool[t] = ToolFailed(AuditTimeoutMessage)
         /\ tpc \notin {"newPage", "goto", "stabilize", "rejected", t} \cup InjectPhases
         /\ result.status = "ok" =>
              /\ result.tools[t].status = "error"
              /\ result.tools[t].timeMs = -1
              /\ result.tools[t].error = AuditTimeoutMessage
         /\ result.status = "error" =>
              result.error \in {HardTimeoutMessage, NetErrorMessage}

\* C4 witness: axe-core never resolved, its timer fired 80% of the timeout
\* after the call, and the task returned a result with status ok.
C4_Witness ==
  /\ tpc = "returned"
  /\ toolFate["axe"] = "timeout"
  /\ result.status = "ok"
  /\ result.tools["axe"].error = AuditTimeoutMessage
  /\ toolFate["al"] = "ok"

\* C5: when the hard timer (2x the per-site timeout after the page was
\* acquired) fires on a task still at work, the page is force-closed, the
\* task's result has status error and the "hard timeout" message, which is
\* not the soft timeout's message, and auditSite goes on to return that
\* result (within the release deadline), so the worker continues.
C5_HardDeadlineKill ==
  /\ tpc \in WorkPhases => hardAt = acquiredAt + 2 * timeout /\ now <= hardAt
  /\ hardFiredAt >= 0 =>
       /\ hardFiredAt = acquiredAt + 2 * timeout
       /\ pageT = "forceClosed"
       /\ raceWinner = "deadline"
       /\ result.status = "error"
       /\ result.error = HardTimeoutMessage
       /\ result.error # AuditTimeoutMessage
       /\ tpc \in {"finally", "returned"}
       /\ tpc = "finally" => now <= hardFiredAt + ReleaseDeadline

\* C5 witness: the hard timer fired while the in-page audit was stuck and the
\* task returned.
C5_Witness ==
  /\ hardFiredAt >= 0
  /\ tpc = "returned"
  /\ toolFate["axe"] = "ok"
  /\ toolFate["ibm"] = "pending"

\* C6: the hard deadline guards the whole task, page acquisition included: a
\* hang in any step ends in an error result no later than the hard deadline
\* (2x the per-site timeout after the task started).
C6_HardDeadlineGuardsWholeTask ==
  result = NoResult => now <= 2 * timeout

\* C7: each tool is invoked on its own: a tool that throws, rejects or times
\* out gets status error and time -1, the other tools still run and keep
\* their own status, time and criteria, and a tool's failure never turns the
\* task's status into error: a result returned from the try has status ok and
\* carries every tool's own record.
C7_ToolIsolation ==
  /\ \A t \in Tools :
       /\ toolFate[t] \in {"throw", "timeout"} =>
            tool[t].status = "error" /\ tool[t].timeMs = -1 /\ tool[t].found = {}
       /\ toolFate[t] = "ok" => tool[t].status = "ok" /\ tool[t].timeMs >= 0
       /\ toolFate[t] = "pending" => tool[t] = ToolInitial
  /\ tpc = "evalReturn" => \A t \in Tools : toolFate[t] # "pending"
  /\ raceWinner = "work" =>
       IF \A t \in Tools : toolFate[t] # "pending"
         THEN \/ result = OkSiteResult(tool)
              \/ result = ErrorSiteResult(NetErrorMessage)
         ELSE result.status = "error"
              /\ result.error \in {NetErrorMessage, GotoTimeoutMessage}

\* C7 witness: axe-core threw, IBM timed out, @accesslint/core found criteria,
\* and the task returned with status ok.
C7_Witness ==
  /\ tpc = "returned"
  /\ result.status = "ok"
  /\ toolFate = [axe |-> "throw", al |-> "ok", ibm |-> "timeout"]
  /\ result.tools["al"].found = Criteria
  /\ result.tools["axe"].timeMs = -1
  /\ result.tools["ibm"].status = "error"

\* No timer is pending and the awaited operation never settles: nothing will
\* ever end the task.
BlockedForever == tpc \notin {"returned", "rejected"} /\ hung # "no" /\ Deadlines = {}

\* C8: on every exit path the release of the page is requested and the
\* release has its own 5 s deadline, so auditSite returns within a bounded
\* delay even if the close never resolves: every started task returns its
\* result and no worker is blocked forever.
C8_EveryTaskReturns ==
  /\ tpc = "finally" =>
       /\ pageT \in {"closing", "forceClosed"}
       /\ closeAt = resultAt + ReleaseDeadline
       /\ now <= closeAt
  /\ tpc = "returned" => pageT \in {"closing", "closed", "forceClosed"}
  /\ tpc # "rejected"
  /\ ~BlockedForever

\* C9: each task ends in exactly one terminal outcome and yields exactly one
\* SiteResult, never changed afterwards: when the hard deadline wins, the
\* later end of the abandoned work is discarded; when the work wins, the hard
\* timer is cancelled with the completion and neither force-closes the page
\* nor produces a second outcome.
C9_ExactlyOneResult ==
  /\ outcomes <= 1
  /\ raceWinner = "work" => hardAt = -1 /\ hardFiredAt = -1 /\ pageT # "forceClosed"
  /\ raceWinner = "deadline" => result = ErrorSiteResult(HardTimeoutMessage)
  /\ TaskEnded => outcomes = 1 /\ result # NoResult

\* ------------------------------------------------------------------ claims: the store
\* The number of complete lines of a text.
LineCount(s) == Cardinality({ p \in DOMAIN s : s[p] = LF })

\* The positions whose callback has run to its end.
CallbackRan == { i \in Positions : finished[i] = 1 }

\* C11: each task's record is handed to the store in the task's completion
\* callback, before the worker claims its next target and not at the end of
\* the run: at every instant the records passed to write() are exactly the
\* results of the tasks whose callbacks have run, one each, in the order of
\* allResults; every one of them has been accepted by the stream as a line
\* (on disk or queued in the stream), none is held back by the script; and a
\* worker that has claimed a further target has written the record of each
\* target it claimed before.
C11_RecordWrittenInCallback ==
  /\ written = allResults
  /\ Len(written) = completed
  /\ Cardinality(CallbackRan) = completed
  /\ \A i \in Positions :
       i \in CallbackRan <=> \E k \in 1..Len(written) : written[k].origin = items[i]
  /\ LineCount(file \o Flatten(buffer)) = completed
  /\ \A k \in 1..Len(claims) :
       (\E k2 \in (k + 1)..Len(claims) : claims[k2][1] = claims[k][1])
         => claims[k][2] \in CallbackRan

\* C11 witness: the run is still going on, a worker is at work on its second
\* target, and the record of a finished task is already on disk.
C11_Witness ==
  /\ mainPc = "pool"
  /\ \E w \in InFlight :
       Cardinality({ k \in 1..Len(claims) : claims[k][1] = w }) >= 2
  /\ nextIndex < Len(items)
  /\ LineCount(file) >= 1

\* C12: a record that cannot be written aborts the run: once a write of the
\* store has failed the script is dead, so that no further target is claimed,
\* no callback runs, and the run never reaches the end of writer.close() as
\* if it had succeeded.
C12_StoreFailureAborts ==
  storeFailed =>
    /\ mainPc = "crashed"
    /\ ~ENABLED PoolNext

\* C12 witness: a write failed while targets were still unclaimed and tasks
\* were in flight; the record is missing from the file.
C12_Witness ==
  /\ storeFailed
  /\ nextIndex < Len(items)
  /\ InFlight # {}
  /\ LineCount(file) < Len(written)

\* ------------------------------------------------------------------ claims: the sampler
\* downloadAndSample has returned in this run.
Sampled == setupPc \in {"launch", "dispatch"}

\* C13: sampling is deterministic: with a seed given, two runs over the same
\* ordered population, denylist and size return the same sequence, element by
\* element and in the same order.
C13_SamplingDeterministic ==
  (runNo > 1 /\ Sampled /\ prevPc = "dispatch" /\ argvSeed # NoSeed)
    => allSites = prevSample

\* C13 witness: the second run with seed 42 has returned a sample of at least
\* three records which is not in the order of the list.
C13_Witness ==
  /\ runNo > 1
  /\ setupPc = "dispatch"
  /\ prevPc = "dispatch"
  /\ argvSeed = 42
  /\ Len(allSites) >= 3
  /\ allSites # SubSeq(Filtered(cruxList, denylist), 1, Len(allSites))

\* The records of the list that pass the exclusion filter.
Eligible == { i \in DOMAIN cruxList :
               ~IsBlocked(HostnameFromOrigin(cruxList[i].origin), denylist) }

\* C14: for every size >= 0 the sample has exactly min(size, number of
\* records that pass the exclusion filter) elements.
C14_SampleBound ==
  Sampled =>
    Len(allSites) = IF argvSize <= Cardinality(Eligible)
                      THEN argvSize ELSE Cardinality(Eligible)

\* C14 witness: the filter removed records and the size asked for is smaller
\* than what is left.
C14_Witness ==
  /\ setupPc = "dispatch"
  /\ argvSize >= 2
  /\ argvSize < Cardinality(Eligible)
  /\ Cardinality(Eligible) < Len(cruxList)
  /\ Len(allSites) = argvSize

\* The labels of a record's hostname.
Labels(r) == SplitDots(HostnameFromOrigin(r.origin), <<>>, <<>>)

\* The hostname, or a parent domain of it with at least two labels, is in the
\* denylist.
ExcludedAsClaimed(r) ==
  \E k \in 0..(Len(Labels(r)) - 1) :
    /\ k = 0 \/ Len(Labels(r)) - k >= 2
    /\ JoinDots(SubSeq(Labels(r), k + 1, Len(Labels(r)))) \in denylist

\* C15: a record is excluded if and only if its hostname, or a parent domain
\* of its hostname with at least two labels, is in the denylist; an entry that
\* is only the bare top-level label of the hostname does not exclude it. No
\* excluded record is ever sampled, and when the size asked for covers the
\* whole list every record that is not excluded is sampled.
C15_ExclusionFilter ==
  Sampled =>
    \A i \in DOMAIN cruxList :
      /\ ExcludedAsClaimed(cruxList[i]) => cruxList[i] \notin Range(allSites)
      /\ (~ExcludedAsClaimed(cruxList[i]) /\ argvSize >= Len(cruxList))
           => cruxList[i] \in Range(allSites)

\* C15 witness: with the denylist {example.com} and the whole list asked for,
\* www.example.com and a.b.example.com are left out and other.com is kept.
C15_Witness ==
  /\ setupPc = "dispatch"
  /\ denylist = { <<"example", DOT, "com">> }
  /\ argvSize >= Len(cruxList)
  /\ Len(cruxList) >= 4
  /\ cruxList[1] \notin Range(allSites)
  /\ cruxList[3] \notin Range(allSites)
  /\ cruxList[4] \in Range(allSites)

\* ------------------------------------------------------------------ claims: sharding
\* The smallest integer c with c * m >= n.
CeilOf(n, m) == CHOOSE c \in 0..n : c * m >= n /\ (c = 0 \/ (c - 1) * m < n)

\* C16: with sharding k/m (1 <= k <= m) on a sample of length N the pool gets
\* exactly the contiguous slice [ceil(N/m)*(k-1), min(ceil(N/m)*k, N)) of the
\* sample, in the sample's order; without sharding it gets the whole sample.
\* The slice is fixed before the pool starts.
C16_ShardSlice ==
  Sampled =>
    IF shard = <<>> THEN shardSites = allSites
    ELSE LET n == Len(allSites)
             c == CeilOf(n, shard[2])
             lo == c * (shard[1] - 1)
             hi == IF c * shard[1] <= n THEN c * shard[1] ELSE n
         IN /\ 1 <= shard[1] /\ shard[1] <= shard[2]
            /\ shardSites = [j \in 1..(IF hi > lo THEN hi - lo ELSE 0) |-> allSites[lo + j]]

\* C16 witness: shard 2/3 of a sample of four records is its records 3 and 4.
C16_Witness ==
  /\ setupPc = "dispatch"
  /\ shard = <<2, 3>>
  /\ Len(allSites) = 4
  /\ shardSites = <<allSites[3], allSites[4]>>

\* A part is a number when it is a non-empty run of digits.
NumericPart(p) == p # <<>> /\ \A q \in DOMAIN p : p[q] \in DigitChars

\* The text is not INDEX/TOTAL with two numbers, or INDEX < 1, or
\* INDEX > TOTAL.
InvalidShardText(text) ==
  LET parts == SplitSlash(text, <<>>, <<>>)
  IN \/ Len(parts) # 2
     \/ ~NumericPart(parts[1])
     \/ ~NumericPart(parts[2])
     \/ ParseInt(parts[1]).value < 1
     \/ ParseInt(parts[1]).value > ParseInt(parts[2]).value

\* C17: a shard argument with index < 1 or index > total, or with a part that
\* is not a number, is a fatal error at startup: the script throws before the
\* population is fetched, the store is opened or a task is dispatched.
C17_InvalidShardIsFatal ==
  (argvShard # Absent /\ InvalidShardText(argvShard)) =>
    /\ setupPc \in {"args", "fatal"}
    /\ fetches = 0
    /\ ~storeOpened
    /\ allSites = <<>>

\* C18: when the population or the denylist cannot be fetched the sampling
\* fails: no partial or fallback sample is produced, the store is not opened
\* and the run ends before any task starts.
C18_FetchFailureIsFatal ==
  fetchFailed =>
    /\ setupPc = "fatal"
    /\ allSites = <<>>
    /\ shardSites = <<>>
    /\ ~storeOpened
    /\ ~ENABLED (FetchCruxResolve \/ FetchBlocklistResolve \/ LaunchResolve)

\* C18 witness: the list was fetched, the fetch of the hosts file failed, and
\* the run is over with no sample although records were eligible.
C18_Witness ==
  /\ fetchFailed
  /\ fetches = 2
  /\ setupPc = "fatal"
  /\ Cardinality(Eligible) >= 2
  /\ argvSize >= 1

\* ------------------------------------------------------------------ claims: concordance
\* The results with status ok, in the order of the list.
OkOnly(list) == SelectSeq(list, LAMBDA r : r.status = "ok")

\* C19: calculateConcordance uses only the results with status ok: a step that
\* adds, removes or changes results and leaves the results with status ok as
\* they were leaves both tables as they were, and with no result of status ok
\* the table is empty.
C19_OnlyOkResultsCount ==
  /\ [](OkOnly(results) = <<>> => (concordances = <<>> /\ concordancesPair = <<>>))
  /\ [][OkOnly(results') = OkOnly(results)
          => (concordances' = concordances /\ concordancesPair' = concordancesPair)]_vars

\* C19 witness: a result with status error that carries criteria of all three
\* tools stands between two results with status ok, and every entry of the
\* table counts two pages.
C19_Witness ==
  /\ Len(results) = 3
  /\ results[1].status = "ok"
  /\ results[2] = SiteResultOf("error", <<Tools, Tools>>, TRUE)
  /\ results[3].status = "ok"
  /\ concordances # <<>>
  /\ \A k \in DOMAIN concordances :
       concordances[k].allThree + concordances[k].twoOfThree
         + concordances[k].oneOnly + concordances[k].noneFound = 2

\* The tools that found the criterion on the page of r.
FoundTools(r, c) ==
  { n \in Tools : \/ n = "axe" /\ c \in r.axeWcagCriteria
                  \/ n = "al" /\ c \in r.alWcagCriteria
                  \/ n = "ibm" /\ r.ibmGiven /\ c \in r.ibmWcagCriteria }

\* How many results of the list have exactly k of the given tools finding c.
FoundByExactly(list, c, among, k) ==
  Cardinality({ i \in DOMAIN list : Cardinality(FoundTools(list[i], c) \cap among) = k })

\* The 2x2 table of two tools for c: <<both, first only, second only, neither>>.
PairTable(list, c, first, second) ==
  LET n(a, b) == Cardinality({ i \in DOMAIN list :
                     /\ (first \in FoundTools(list[i], c)) = a
                     /\ (second \in FoundTools(list[i], c)) = b })
  IN <<n(TRUE, TRUE), n(TRUE, FALSE), n(FALSE, TRUE), n(FALSE, FALSE)>>

\* The criteria found by at least one of the given tools in at least one
\* result of the list.
FoundAnywhere(list, among) ==
  { c \in Range(SortedCriteria) : \E i \in DOMAIN list : FoundTools(list[i], c) \cap among # {} }

\* C20: the table has exactly one entry for each criterion found by at least
\* one tool in at least one result with status ok; bucket k of the entry is the
\* number of ok results in which exactly k tools found the criterion, and each
\* pairwise table counts the ok results by the found bits of its two tools.
\* The two-tool calculateConcordance does the same with its two tools.
C20_EntriesAndBuckets ==
  LET ok == OkOnly(results)
  IN /\ Len(concordances) = Cardinality(FoundAnywhere(ok, Tools))
     /\ { concordances[k].criterion : k \in DOMAIN concordances } = FoundAnywhere(ok, Tools)
     /\ \A k \in DOMAIN concordances :
          LET e == concordances[k]
          IN /\ e.noneFound = FoundByExactly(ok, e.criterion, Tools, 0)
             /\ e.oneOnly = FoundByExactly(ok, e.criterion, Tools, 1)
             /\ e.twoOfThree = FoundByExactly(ok, e.criterion, Tools, 2)
             /\ e.allThree = FoundByExactly(ok, e.criterion, Tools, 3)
             /\ e.axeAl = PairTable(ok, e.criterion, "axe", "al")
             /\ e.axeIbm = PairTable(ok, e.criterion, "axe", "ibm")
             /\ e.alIbm = PairTable(ok, e.criterion, "al", "ibm")
     /\ Len(concordancesPair) = Cardinality(FoundAnywhere(ok, {"axe", "al"}))
     /\ { concordancesPair[k].criterion : k \in DOMAIN concordancesPair }
          = FoundAnywhere(ok, {"axe", "al"})
     /\ \A k \in DOMAIN concordancesPair :
          LET e == concordancesPair[k]
          IN <<e.bothFound, e.axeOnly, e.alOnly, e.neitherFound>>
               = PairTable(ok, e.criterion, "axe", "al")

\* C20 witness: three ok results give two entries, and the first criterion was
\* found by all three tools on one page, by two on another and by none on the
\* third.
C20_Witness ==
  /\ Len(OkOnly(results)) = 3
  /\ Len(concordances) = 2
  /\ concordances[1].allThree = 1
  /\ concordances[1].twoOfThree = 1
  /\ concordances[1].noneFound = 1
  /\ concordances[1].axeIbm = <<1, 1, 0, 1>>
  /\ Len(concordancesPair) = 2

\* ------------------------------------------------------------------ claims: kappa
\* n * n * pe of the table, from the counts alone.
ExpectedTimesSquare(t) == ((t[1] + t[2]) * (t[1] + t[3])) + ((t[3] + t[4]) * (t[2] + t[4]))

Total(t) == t[1] + t[2] + t[3] + t[4]

\* C21: kappa is total: for every table of non-negative counts the result is
\* a finite number, no division by zero having taken place, and when pe = 1
\* (also for the table of zeros) the result is 1.
C21_KappaTotal ==
  kpc \in {"cohenKappa", "inline"} =>
    /\ kappa.den # 0
    /\ ExpectedTimesSquare(kTable) = Total(kTable) * Total(kTable) => kappa = One

\* C21 witness: both tools found the criterion on each of three pages
\* (p1 = p2 = 1, pe = 1), and kappa came out as 1.
C21_Witness ==
  /\ kpc = "cohenKappa"
  /\ kTable = <<3, 0, 0, 0>>
  /\ kappa = One

\* C22: when pe # 1, kappa = (po - pe) / (1 - pe) with po = (both + neither)/n,
\* p1 = (both + firstOnly)/n, p2 = (both + secondOnly)/n and
\* pe = p1*p2 + (1-p1)*(1-p2); multiplied out over the counts:
\* kappa * (n*n - n*n*pe) = n*(both + neither) - n*n*pe. The table (5,0,0,5)
\* gives 1 and (8,1,1,0) gives -1/9.
C22_KappaFormula ==
  kpc \in {"cohenKappa", "inline"} =>
    LET n == Total(kTable)
        e == ExpectedTimesSquare(kTable)
    IN /\ (n > 0 /\ e # n * n) =>
            /\ kappa.den > 0
            /\ kappa.num * ((n * n) - e) = kappa.den * ((n * (kTable[1] + kTable[4])) - e)
       /\ kTable = <<5, 0, 0, 5>> => kappa = One
       /\ kTable = <<8, 1, 1, 0>> => kappa = [num |-> -1, den |-> 9]

\* C22 witness: the table (8,1,1,0) went through cohenKappa and gave -1/9.
C22_Witness ==
  /\ kpc = "cohenKappa"
  /\ kTable = <<8, 1, 1, 0>>
  /\ kappa = [num |-> -1, den |-> 9]

\* The sum of the four cells of a table.
CellSum(t) == t[1] + t[2] + t[3] + t[4]

\* C29: in every entry allThree + twoOfThree + oneOnly + noneFound is the
\* number of results with status ok, and so is the sum of the four cells of
\* each pairwise table; in the two-tool version bothFound + axeOnly + alOnly
\* + neitherFound is the number of results with status ok.
C29_CountsSumToOkResults ==
  /\ \A k \in DOMAIN concordances :
       LET e == concordances[k]
       IN /\ e.allThree + e.twoOfThree + e.oneOnly + e.noneFound = Len(OkOnly(results))
          /\ CellSum(e.axeAl) = Len(OkOnly(results))
          /\ CellSum(e.axeIbm) = Len(OkOnly(results))
          /\ CellSum(e.alIbm) = Len(OkOnly(results))
  /\ \A k \in DOMAIN concordancesPair :
       LET e == concordancesPair[k]
       IN e.bothFound + e.axeOnly + e.alOnly + e.neitherFound = Len(OkOnly(results))

\* C29 witness: two results with status ok and one with status error; the
\* first criterion was found by all tools on one page and by none on the
\* other, the second the other way round, and every sum is 2.
C29_Witness ==
  /\ Len(results) = 3
  /\ Len(OkOnly(results)) = 2
  /\ Len(concordances) = 2
  /\ concordances[1].allThree = 1
  /\ concordances[1].noneFound = 1
  /\ concordances[2].axeIbm = <<1, 0, 0, 1>>
  /\ Len(concordancesPair) = 2

\* The results with status ok in which at least one tool failed.
WithFailedTool(list) == { i \in DOMAIN list : list[i].status = "ok" /\ list[i].failedTools # {} }

\* How many results with status ok count as "found by the tool" in a table
\* of which the tool is the first (cells 1 and 2) or the second (cells 1, 3).
FoundAsFirst(t) == t[1] + t[2]
FoundAsSecond(t) == t[1] + t[3]

\* The results with status ok in which the tool has not failed and found c.
FoundByWorkingTool(list, c, n) ==
  Cardinality({ i \in DOMAIN list : /\ list[i].status = "ok"
                                     /\ n \notin list[i].failedTools
                                     /\ n \in FoundTools(list[i], c) })

\* C30: a result with status ok in which a tool failed is still counted: the
\* buckets of every entry add up to all results with status ok, those with a
\* failed tool included, and such a result counts as "not found" by the
\* failed tool: what a table counts as found by a tool are the ok results in
\* which that tool worked and found the criterion, and a result with a failed
\* tool is never among allThree.
C30_FailedToolCountsAsNotFound ==
  \A k \in DOMAIN concordances :
    LET e == concordances[k]
        ok == Cardinality({ i \in DOMAIN results : results[i].status = "ok" })
    IN /\ e.allThree + e.twoOfThree + e.oneOnly + e.noneFound = ok
       /\ e.allThree <= ok - Cardinality(WithFailedTool(results))
       /\ FoundAsFirst(e.axeAl) = FoundByWorkingTool(results, e.criterion, "axe")
       /\ FoundAsFirst(e.axeIbm) = FoundByWorkingTool(results, e.criterion, "axe")
       /\ FoundAsSecond(e.axeAl) = FoundByWorkingTool(results, e.criterion, "al")
       /\ FoundAsFirst(e.alIbm) = FoundByWorkingTool(results, e.criterion, "al")
       /\ FoundAsSecond(e.axeIbm) = FoundByWorkingTool(results, e.criterion, "ibm")
       /\ FoundAsSecond(e.alIbm) = FoundByWorkingTool(results, e.criterion, "ibm")

\* C30 witness: of two results with status ok one has a failed axe-core; the
\* first criterion was found by the other two tools there, and the entry puts
\* that page under twoOfThree and under "al only" of the pair axe, al.
C30_Witness ==
  /\ Len(results) = 2
  /\ results[1] = SiteResultOf("ok", <<Tools, {}>>, TRUE)
  /\ results[2] = SiteResultWithFailedTools(<<Tools, {"al"}>>, {"axe"})
  /\ Len(concordances) = 2
  /\ concordances[1].allThree = 1
  /\ concordances[1].twoOfThree = 1
  /\ concordances[1].axeAl = <<1, 0, 1, 0>>

\* ------------------------------------------------------------------ claims: calls
\* C23: calculateConcordance is a pure function of the list of results: a call
\* leaves the list as it was, and every later call on it returns tables equal
\* to those of the first call.
C23_PureFunction ==
  (calls >= 1 /\ ~permuted) =>
    /\ results = givenResults
    /\ <<concordances, concordancesPair>> = firstTables

\* C23 witness: the second call on a list with two results of status ok and
\* one of status error between them has returned.
C23_Witness ==
  /\ calls = 2
  /\ ~permuted
  /\ Len(results) = 3
  /\ results[2].status = "error"
  /\ Len(OkOnly(results)) = 2
  /\ Len(concordances) = 2

\* C28: calculateConcordance returns the same tables for every order of the
\* list of results.
C28_OrderDoesNotMatter ==
  permuted => <<concordances, concordancesPair>> = firstTables

\* C28 witness: the list is the reverse of the one first handed over, the
\* criteria are met in another order than before, and the table has both.
C28_Witness ==
  /\ permuted
  /\ Len(results) = 3
  /\ results = <<givenResults[3], givenResults[2], givenResults[1]>>
  /\ CollectCriteria(OkOnly(results), 1, <<>>) # CollectCriteria(OkOnly(givenResults), 1, <<>>)
  /\ Len(concordances) = 2

\* ------------------------------------------------------------------ claims: claiming and shutdown
\* C24: claiming is atomic and ordered: the cursor never decreases and never
\* exceeds the number of targets, it counts the claims made, the i-th claim
\* of the pool (whichever worker makes it) is the i-th target, and so no
\* target is claimed twice.
C24_ClaimsInInputOrder ==
  /\ [](/\ nextIndex <= Len(items)
        /\ Len(claims) = nextIndex
        /\ \A i \in DOMAIN claims : claims[i][2] = i
        /\ \A i \in DOMAIN claims : \A j \in DOMAIN claims :
             i # j => claims[i][2] # claims[j][2]
        /\ \A w \in InFlight : \A v \in InFlight : w # v => windex[w] # windex[v])
  /\ [][nextIndex' >= nextIndex]_vars

\* C24 witness: worker 2 finished its first task before worker 1 and made the
\* third claim; all three targets are claimed.
C24_Witness ==
  /\ Len(items) = 3
  /\ nextIndex = 3
  /\ claims = << <<1, 1>>, <<2, 2>>, <<2, 3>> >>
  /\ wpc[1] \in {"newPage", "race", "finally"}

\* The order of the shutdown: writer.close() is never called twice, at its
\* call all workers are done and every result has been handed to the store,
\* no write follows it; when close() has resolved everything is on disk, and
\* calculateConcordance gets the complete list of results only after that.
ShutdownInOrder ==
  /\ closeCalls <= 1
  /\ mainPc \in {"closing", "closed", "summary"} => closeCalls = 1
  /\ closeCalls = 1 =>
       /\ \A w \in workers : wpc[w] = "done"
       /\ Len(written) = Len(items)
       /\ written = allResults
       /\ Len(written) = writtenAtClose
  /\ mainPc \in {"closed", "summary"} =>
       /\ buffer = <<>>
       /\ LineCount(file) = Len(items)
  /\ mainPc # "summary" => summaryOver = <<>>
  /\ mainPc = "summary" =>
       /\ summaryOver = allResults
       /\ Len(summaryOver) = Len(items)

\* C26: the store is closed exactly once, only after every worker has
\* finished and every result has been written; no write follows close, and
\* the concordance is computed only afterwards, over the complete list: the
\* shutdown is in order, and a run that is over without a failure of the
\* store has closed the store.
C26_CloseOnceAfterAllWrites ==
  /\ ShutdownInOrder
  /\ (mainPc = "crashed" /\ ~storeFailed) => closeCalls = 1

\* ------------------------------------------------------------------ C25
\* The records of the population that pass the exclusion filter, in list order.
EligiblePool == SelectSeq(cruxList, LAMBDA r : ~ExcludedAsClaimed(r))

\* The seed the run samples with.
SeedUsed == IF argvSeed = NoSeed THEN ClockSeed(runNo) ELSE argvSeed

\* floor(rand * m), rand = u / 2^32 with u given as two 16-bit halves.
RandomIndex(u, m) ==
  CHOOSE q \in 0..(m - 1) :
    LET scaled == u[1] * m + ((u[2] * m) \div Half)
    IN q * Half <= scaled /\ scaled < (q + 1) * Half

\* The Fisher-Yates shuffle: i from the last index down to 1, the element at
\* i changes places with the one at floor(rand * (i + 1)); 0-based positions.
RECURSIVE FisherYates(_, _, _)
FisherYates(arr, i, seed) ==
  IF i < 1 THEN arr
  ELSE LET r == Mulberry32Step(seed)
           j == RandomIndex(r.out, i + 1)
           swapped == [p \in DOMAIN arr |->
                         IF p = i + 1 THEN arr[j + 1]
                         ELSE IF p = j + 1 THEN arr[i + 1] ELSE arr[p]]
       IN FisherYates(swapped, i - 1, r.seed)

Occurrences(seq, r) == Cardinality({ i \in DOMAIN seq : seq[i] = r })

\* C25: the sample is a prefix of the full seeded Fisher-Yates shuffle of the
\* eligible pool: every sampled target is a record of the population that
\* passes the exclusion filter, with origin and rank unchanged, no record is
\* in the sample more often than in the population, and the sequence given to
\* the sampler is the same after the call.
C25_SampleIsShuffledPrefix ==
  Sampled =>
    /\ allSites = SubSeq(FisherYates(EligiblePool, Len(EligiblePool) - 1, Word(SeedUsed)),
                         1, Len(allSites))
    /\ \A i \in DOMAIN allSites :
         \E k \in DOMAIN cruxList :
           /\ ~ExcludedAsClaimed(cruxList[k])
           /\ allSites[i].origin = cruxList[k].origin
           /\ allSites[i].rank = cruxList[k].rank
    /\ \A r \in Range(allSites) : Occurrences(allSites, r) <= Occurrences(cruxList, r)
    /\ itemsAfter = EligiblePool

\* C25 witness: the filter removed a record, fewer records are asked for than
\* are eligible, and the sample is not the head of the pool in list order.
C25_Witness ==
  /\ setupPc = "dispatch"
  /\ Len(EligiblePool) < Len(cruxList)
  /\ argvSize >= 2
  /\ argvSize < Len(EligiblePool)
  /\ Len(allSites) = argvSize
  /\ allSites # SubSeq(EligiblePool, 1, argvSize)
  /\ itemsAfter = EligiblePool

\* ------------------------------------------------------------------ C27
\* The slices of shards k..m of a list, one after the other.
RECURSIVE ConcatShards(_, _, _)
ConcatShards(list, k, m) ==
  IF k > m THEN <<>>
  ELSE ShardSlice(list, <<k, m>>) \o ConcatShards(list, k + 1, m)

\* The shards of m whose slice holds the i-th sampled target.
ShardsHolding(i, m) ==
  { k \in 1..m : allSites[i] \in Range(ShardSlice(allSites, <<k, m>>)) }

\* C27: with a shard total m >= 1, the slices of shards 1..m of the sample are
\* pairwise disjoint and their concatenation in shard order is the sample:
\* every sampled target is in exactly one shard, also when the length is not
\* a multiple of m or is smaller than m, and the sites of the run are the
\* slice of its own shard.
C27_ShardsPartitionSample ==
  (Sampled /\ shard # <<>>) =>
    LET m == shard[2]
    IN /\ m >= 1
       /\ ConcatShards(allSites, 1, m) = allSites
       /\ \A k1, k2 \in 1..m :
            k1 # k2 => Range(ShardSlice(allSites, <<k1, m>>))
                         \cap Range(ShardSlice(allSites, <<k2, m>>)) = {}
       /\ \A i \in DOMAIN allSites : Cardinality(ShardsHolding(i, m)) = 1
       /\ shardSites = ShardSlice(allSites, <<shard[1], m>>)

\* C27 witness: four targets in three shards: chunks of two, and the third
\* shard is empty.
C27_Witness ==
  /\ setupPc = "dispatch"
  /\ shard = <<3, 3>>
  /\ Len(allSites) = 4
  /\ shardSites = <<>>
  /\ ShardSlice(allSites, <<2, 3>>) = <<allSites[3], allSites[4]>>

====
